---- MODULE Spec2Model ----
(***************************************************************************)
(* note-to-email: the idempotent multi-provider dispatch pipeline.         *)
(*                                                                         *)
(* The model follows backend/src/routes/emails.ts (POST /send and          *)
(* POST /sent/:id/retry), services/emailService.ts, services/              *)
(* nylasEmailService.ts, routes/nylasAuth.ts, routes/auth.ts,              *)
(* routes/templates.ts, routes/notes.ts and database/schema.sql.           *)
(* Every `await` of a handler is a step boundary: the statements between   *)
(* two awaits form one atomic action, each database statement is atomic.   *)
(***************************************************************************)
EXTENDS Integers, FiniteSets, Sequences, TLC

VARIABLES
    users,      \* users table: the four credential columns of every user
    templates,  \* email_templates table
    versions,   \* email_template_versions table (set of snapshot rows)
    notes,      \* notes table
    sent,       \* sent_emails table: sequence of rows, row i has id i
    rq,         \* the requests: position and locals of every handler run
    calls,      \* every provider adapter call made so far
    renders,    \* number of renderTemplate calls made so far
    now,        \* logical clock behind new Date()
    lastWrite   \* the last run of a handler that writes email_templates

vars == <<users, templates, versions, notes, sent, rq, calls, renders, now, lastWrite>>

----------------------------------------------------------------------------
(* Bounds of the model. *)

\* request slots of the dispatch/retry race specification
MaxReq == 3
\* request slots of the specifications with template edits or arbitrary credentials
MaxReqEdit == 2
\* cap on email_templates.version
MaxVersion == 2
\* cap on email_templates.version where only the templates are written
MaxStoreVersion == 3
MaxTemplates == 2

Reqs == 1..MaxReq
ReqsEdit == 1..MaxReqEdit

NULL == "null"

Users == {"u1", "u2"}
\* the grant id written into the endpoint URL of NylasEmailService.sendEmail
HardcodedGrant == "dcbd389c-d486-4d70-8c82-022dc738806e"

Recipients == <<"a@example.com">>

----------------------------------------------------------------------------
(* Credentials: the columns read by the provider selection. *)

NoCreds == [has_nylas_auth |-> FALSE, nylas_access_token |-> NULL,
            gmail_access_token |-> NULL, gmail_refresh_token |-> NULL]

\* the grant Nylas hands out to a user at the OAuth callback
GrantOf(u) == "grant-" \o u

\* every value the four columns can hold
AllCreds(u) == [has_nylas_auth : BOOLEAN, nylas_access_token : {NULL, GrantOf(u)},
                gmail_access_token : {NULL, "at"}, gmail_refresh_token : {NULL, "rt"}]

\* POST /nylas/callback: UPDATE users SET nylas_access_token, has_nylas_auth = true
nylasCallback(row, u) ==
    [row EXCEPT !.nylas_access_token = GrantOf(u), !.has_nylas_auth = TRUE]

\* POST /nylas/revoke: UPDATE users SET nylas_access_token = NULL, has_nylas_auth = false
nylasRevoke(row) ==
    [row EXCEPT !.nylas_access_token = NULL, !.has_nylas_auth = FALSE]

\* POST /gmail/callback: UPDATE users SET gmail_refresh_token, gmail_access_token
gmailCallback(row) ==
    [row EXCEPT !.gmail_refresh_token = "rt", !.gmail_access_token = "at"]

\* The provider priority of POST /send: Nylas, then Gmail, then none (throw).
selectProvider_gmailFirst(userData) ==
    IF userData.gmail_access_token # NULL \/ userData.gmail_refresh_token # NULL
    THEN "gmail"
    ELSE IF userData.has_nylas_auth /\ userData.nylas_access_token # NULL
         THEN "nylas"
         ELSE "none"

selectProvider_gmailDefault(userData) ==
    IF userData.has_nylas_auth /\ userData.nylas_access_token # NULL
    THEN "nylas"
    ELSE "gmail"

selectProvider(userData) ==
    IF userData.has_nylas_auth /\ userData.nylas_access_token # NULL
    THEN "nylas"
    ELSE IF userData.gmail_access_token # NULL \/ userData.gmail_refresh_token # NULL
         THEN "gmail"
         ELSE "none"

----------------------------------------------------------------------------
(* Strings. A template source, a note's markdown and an HTML document are  *)
(* sequences of tokens; the text between the braces of a mustache, which   *)
(* the code inspects by character, is a sequence of characters.            *)

Tok(k, tag, attrs, text, inner, esc) ==
    [k |-> k, tag |-> tag, attrs |-> attrs, text |-> text, inner |-> inner, esc |-> esc]

\* a run of characters without markup
Text(s) == Tok("text", "", {}, s, <<>>, <<>>)
\* <tag attrs> and </tag>; an attribute is <<name, scheme, rest>>, the scheme
\* of a value without one is ""
Open(tag, attrs) == Tok("open", tag, attrs, "", <<>>, <<>>)
Close(tag) == Tok("close", tag, {}, "", <<>>, <<>>)
\* {{inner}} and {{{inner}}}
Mu(inner) == Tok("mu", "", {}, "", inner, <<>>)
Raw(inner) == Tok("raw", "", {}, "", inner, <<>>)
\* the text `[name]`
Placeholder(name) == Tok("ph", "", {}, "", name, <<>>)
\* the HTML-escaped text of a document: &lt;p&gt;...
Esc(html) == Tok("esc", "", {}, "", <<>>, html)
\* the text of a document with its entities decoded again
Lit(html) == Tok("lit", "", {}, "", <<>>, html)

Range(s) == {s[i] : i \in DOMAIN s}

IsSpace(c) == c = " "

RECURSIVE TrimLeft(_)
TrimLeft(s) ==
    IF s = <<>> THEN s
    ELSE IF IsSpace(Head(s)) THEN TrimLeft(Tail(s)) ELSE s

RECURSIVE TrimRight(_)
TrimRight(s) ==
    IF s = <<>> THEN s
    ELSE IF IsSpace(s[Len(s)]) THEN TrimRight(SubSeq(s, 1, Len(s) - 1)) ELSE s

\* String.prototype.trim
Trim(s) == TrimRight(TrimLeft(s))

StartsWith(s, pre) ==
    IF Len(s) >= Len(pre) THEN SubSeq(s, 1, Len(pre)) = pre ELSE FALSE

\* s.replace(/^pre\s+/, '')
ReplacePrefix(s, pre) ==
    IF StartsWith(s, pre)
    THEN LET rest == SubSeq(s, Len(pre) + 1, Len(s))
         IN  IF rest = <<>> THEN s
             ELSE IF IsSpace(Head(rest)) THEN TrimLeft(rest) ELSE s
    ELSE s

\* s.split(c)[0]
RECURSIVE SplitFirst(_, _)
SplitFirst(s, c) ==
    IF s = <<>> THEN <<>>
    ELSE IF Head(s) = c THEN <<>> ELSE <<Head(s)>> \o SplitFirst(Tail(s), c)

\* the words of a trimmed string
RECURSIVE Words(_)
Words(s) ==
    LET t == TrimLeft(s)
    IN  IF t = <<>> THEN <<>>
        ELSE LET w == SplitFirst(t, " ")
             IN  <<w>> \o Words(SubSeq(t, Len(w) + 1, Len(t)))

\* names
N_note_title == <<"n","o","t","e","_","t","i","t","l","e">>
N_note_content == <<"n","o","t","e","_","c","o","n","t","e","n","t">>
N_note_content_html == N_note_content \o <<"_","h","t","m","l">>
N_note_created_at == <<"n","o","t","e","_","c","r","e","a","t","e","d","_","a","t">>
N_note_updated_at == <<"n","o","t","e","_","u","p","d","a","t","e","d","_","a","t">>
N_today == <<"t","o","d","a","y">>
N_now == <<"n","o","w">>
N_current_year == <<"c","u","r","r","e","n","t","_","y","e","a","r">>
N_current_month == <<"c","u","r","r","e","n","t","_","m","o","n","t","h">>
N_current_date == <<"c","u","r","r","e","n","t","_","d","a","t","e">>
N_this == <<"t","h","i","s">>
N_each == <<"e","a","c","h">>
N_if == <<"i","f">>
N_unless == <<"u","n","l","e","s","s">>
N_items == <<"i","t","e","m","s">>
N_flag == <<"f","l","a","g">>
N_unknown_var == <<"u","n","k","n","o","w","n","_","v","a","r">>
N_user_name == <<"u","s","e","r",".","n","a","m","e">>
N_user == <<"u","s","e","r">>

\* `#` and `/` before a helper name, with an argument
BlockOpen(helper, arg) == <<"#">> \o helper \o <<" ">> \o arg
BlockClose(helper) == <<"/">> \o helper

----------------------------------------------------------------------------
(* TemplateEngine.extractTemplateVariables *)

\* the chain of replace, trim and split applied to one match
variableOf(inner) ==
    SplitFirst(Trim(ReplacePrefix(ReplacePrefix(ReplacePrefix(
        inner, <<"#">> \o N_each), N_if), N_unless)), ".")

\* content.match(/\{\{[^}]+\}\}/g): the mustaches with something between the braces
IsMatch(t) == t.k \in {"mu", "raw"} /\ t.inner # <<>>

RECURSIVE addVariables(_, _)
addVariables(content, variables) ==
    IF content = <<>> THEN variables
    ELSE LET t == Head(content)
             variable == variableOf(t.inner)
             keep == IF IsMatch(t) /\ variable # <<>>
                     THEN Head(variable) # "/" /\ variable # N_this
                     ELSE FALSE
         IN  addVariables(Tail(content),
                 IF keep /\ variable \notin Range(variables)
                 THEN Append(variables, variable) ELSE variables)

extractTemplateVariables(subject, body) ==
    addVariables(subject \o <<Text(" ")>> \o body, <<>>)

----------------------------------------------------------------------------
(* Handlebars. compile(input) only checks that the input is a string and   *)
(* returns a function; the source is parsed when that function is first    *)
(* called, and a syntax error is thrown there.                             *)

\* a value of the JSON body of a request: a string or not
Str(s) == [type |-> "string", v |-> s]
NotStr == [type |-> "number", v |-> <<>>]

\* Handlebars.compile throws on an input that is no string
compileThrows(input) == input.type # "string"

\* a value is falsy when it is missing or empty
Truthy(value) == value # <<>>

\* the value of a path expression: a missing name gives the empty string
lookup(variables, path) ==
    LET root == SplitFirst(path, ".")
    IN  IF path = N_this THEN <<Text("[object Object]")>>
        ELSE IF root # path THEN <<>>
        ELSE IF root \in DOMAIN variables THEN variables[root] ELSE <<>>

HasMarkup(value) == \E i \in DOMAIN value : value[i].k \in {"open", "close"}

\* Handlebars.escapeExpression as applied by {{name}}
escapeExpression(value) == IF HasMarkup(value) THEN <<Esc(value)>> ELSE value

\* the block helpers Handlebars registers
BlockHelpers == {N_if, N_unless, N_each}

\* whether the body of a block is rendered; every binding is a string or a
\* number, over which #each renders nothing
blockOn(helper, value) ==
    IF helper = N_if THEN Truthy(value)
    ELSE IF helper = N_unless THEN ~Truthy(value)
    ELSE FALSE

Active(stack) == \A i \in DOMAIN stack : stack[i].on

\* the compiled template applied to the variables: the output, or thrown
RECURSIVE hbRun(_, _, _, _)
hbRun(source, variables, stack, out) ==
    IF source = <<>>
    THEN [thrown |-> stack # <<>>, out |-> IF stack # <<>> THEN <<>> ELSE out]
    ELSE LET t == Head(source)
             rest == Tail(source)
             words == Words(t.inner)
             first == IF words = <<>> THEN <<>> ELSE words[1]
             error == [thrown |-> TRUE, out |-> <<>>]
         IN  IF t.k \notin {"mu", "raw"}
             THEN hbRun(rest, variables, stack,
                        IF Active(stack) THEN Append(out, t) ELSE out)
             ELSE IF first = <<>> THEN error
             ELSE IF Head(first) = "#"
             THEN IF Tail(first) \in BlockHelpers /\ Len(words) = 2
                  THEN hbRun(rest, variables,
                             Append(stack, [helper |-> Tail(first),
                                            on |-> blockOn(Tail(first),
                                                      lookup(variables, words[2]))]),
                             out)
                  ELSE error
             ELSE IF Head(first) = "/"
             THEN IF stack = <<>> THEN error
                  ELSE IF stack[Len(stack)].helper = Tail(first) /\ Len(words) = 1
                       THEN hbRun(rest, variables, SubSeq(stack, 1, Len(stack) - 1), out)
                       ELSE error
             ELSE IF Len(words) # 1 THEN error
             ELSE LET value == lookup(variables, first)
                      piece == IF t.k = "raw" THEN value ELSE escapeExpression(value)
                  IN  hbRun(rest, variables, stack,
                            IF Active(stack) THEN out \o piece ELSE out)

\* Handlebars.compile(source)(variables)
hbRender(source, variables) == hbRun(source, variables, <<>>, <<>>)

----------------------------------------------------------------------------
(* HTML. purify.sanitize parses its input into a document, removes what   *)
(* the configuration does not allow and serializes the document again.    *)
(* A document is a token sequence in which every tag is closed in order.  *)

\* elements without content
VoidTags == {"img", "br", "input", "embed"}
\* start tags that first close an open p element
ClosesP == {"p", "div", "h1", "ul", "form", "pre", "blockquote"}
\* the elements an open element is not looked for beyond
ScopeTags == {"object", "table", "td", "th"}
ButtonScopeTags == ScopeTags \cup {"button"}

\* whether `tag` is open above the nearest of `bounds`; the top of the stack is last
RECURSIVE InScope(_, _, _)
InScope(stack, tag, bounds) ==
    IF stack = <<>> THEN FALSE
    ELSE LET top == stack[Len(stack)]
         IN  IF top = tag THEN TRUE
             ELSE IF top \in bounds THEN FALSE
             ELSE InScope(SubSeq(stack, 1, Len(stack) - 1), tag, bounds)

\* the end tags that pop the stack down to and including `tag`
RECURSIVE ClosesTo(_, _)
ClosesTo(stack, tag) ==
    IF stack = <<>> THEN <<>>
    ELSE LET top == stack[Len(stack)]
         IN  IF top = tag THEN <<Close(top)>>
             ELSE <<Close(top)>> \o ClosesTo(SubSeq(stack, 1, Len(stack) - 1), tag)

RECURSIVE Below(_, _)
Below(stack, tag) ==
    IF stack = <<>> THEN <<>>
    ELSE IF stack[Len(stack)] = tag THEN SubSeq(stack, 1, Len(stack) - 1)
    ELSE Below(SubSeq(stack, 1, Len(stack) - 1), tag)

RECURSIVE ClosesAll(_)
ClosesAll(stack) ==
    IF stack = <<>> THEN <<>>
    ELSE <<Close(stack[Len(stack)])>> \o ClosesAll(SubSeq(stack, 1, Len(stack) - 1))

\* the tree construction of the HTML parser, for the tags above
RECURSIVE treeBuild(_, _, _)
treeBuild(in, stack, out) ==
    IF in = <<>> THEN out \o ClosesAll(stack)
    ELSE LET t == Head(in)
             rest == Tail(in)
         IN  IF t.k = "open"
             THEN LET closeP == t.tag \in ClosesP /\ InScope(stack, "p", ButtonScopeTags)
                      closed == IF closeP THEN ClosesTo(stack, "p") ELSE <<>>
                      below == IF closeP THEN Below(stack, "p") ELSE stack
                  IN  treeBuild(rest,
                                IF t.tag \in VoidTags THEN below ELSE Append(below, t.tag),
                                out \o closed \o <<t>>)
             ELSE IF t.k = "close"
             THEN IF t.tag = "p"
                  THEN IF InScope(stack, "p", ButtonScopeTags)
                       THEN treeBuild(rest, Below(stack, "p"), out \o ClosesTo(stack, "p"))
                       ELSE treeBuild(rest, stack, out \o <<Open("p", {}), Close("p")>>)
                  ELSE IF t.tag \notin VoidTags /\ InScope(stack, t.tag, ScopeTags)
                       THEN treeBuild(rest, Below(stack, t.tag),
                                      out \o ClosesTo(stack, t.tag))
                       ELSE treeBuild(rest, stack, out)
             ELSE treeBuild(rest, stack, Append(out, t))

\* DOMParser.parseFromString followed by body.innerHTML
parseHtml(html) == treeBuild(html, <<>>, <<>>)

\* the tags and attributes of DOMPurify's default profile, of those the
\* model uses
DefaultTags == {"p", "br", "strong", "em", "h1", "ul", "li", "blockquote", "a", "img",
                "div", "span", "pre", "code", "form", "input", "button"}
DefaultAttrs == {"href", "src", "alt", "title", "style", "class", "id", "name", "type"}
\* ALLOWED_TAGS and ALLOWED_ATTR of sanitizeHtml
ALLOWED_TAGS == {"p", "br", "strong", "em", "u", "h1", "h2", "h3", "h4", "h5", "h6",
                 "ul", "ol", "li", "blockquote", "a", "img", "table", "thead", "tbody",
                 "tr", "td", "th", "div", "span", "pre", "code"}
ALLOWED_ATTR == {"href", "src", "alt", "title", "style"}
\* the schemes of ALLOWED_URI_REGEXP; "" is a value without a scheme
ALLOWED_URI == {"", "http", "https", "ftp", "ftps", "mailto", "tel", "callto", "cid", "xmpp"}
\* names matching DOMPurify's data-* and aria-* patterns
DataAttrs == {"data-id"}
AriaAttrs == {"aria-label"}
\* attributes whose value is not checked against the URI pattern
UriSafeAttrs == {"alt", "class", "id", "name", "title", "style"}
\* tags whose src may hold a data: URI
DataUriTags == {"img"}
\* removed elements whose content is removed with them
ForbidContents == {"script", "style", "iframe"}

\* the options of a sanitize call; those a call does not name keep DOMPurify's defaults
DefaultConfig == [tags |-> DefaultTags, attrs |-> DefaultAttrs, uri |-> ALLOWED_URI,
                  dataAttr |-> TRUE, ariaAttr |-> TRUE]
sanitizeConfig == [tags |-> ALLOWED_TAGS, attrs |-> ALLOWED_ATTR, uri |-> ALLOWED_URI,
                   dataAttr |-> TRUE, ariaAttr |-> TRUE]

\* DOMPurify's attribute check
validAttribute(config, tag, a) ==
    IF config.dataAttr /\ a[1] \in DataAttrs THEN TRUE
    ELSE IF config.ariaAttr /\ a[1] \in AriaAttrs THEN TRUE
    ELSE IF a[1] \notin config.attrs THEN FALSE
    ELSE IF a[1] \in UriSafeAttrs THEN TRUE
    ELSE IF a[2] \in config.uri THEN TRUE
    ELSE a[1] \in {"src", "href"} /\ a[2] = "data" /\ tag \in DataUriTags

\* DOMPurify's walk over the document: an element whose tag is not allowed is
\* removed, its content kept in its place unless the tag forbids that
RECURSIVE purifyWalk(_, _, _, _, _)
purifyWalk(config, in, kept, skip, out) ==
    IF in = <<>> THEN out
    ELSE LET t == Head(in)
             rest == Tail(in)
         IN  IF skip > 0
             THEN purifyWalk(config, rest, kept,
                             IF t.k = "open" /\ t.tag \notin VoidTags THEN skip + 1
                             ELSE IF t.k = "close" THEN skip - 1 ELSE skip,
                             out)
             ELSE IF t.k = "open"
             THEN LET ok == t.tag \in config.tags
                      clean == [t EXCEPT !.attrs =
                                   {a \in t.attrs : validAttribute(config, t.tag, a)}]
                  IN  IF t.tag \in VoidTags
                      THEN purifyWalk(config, rest, kept, 0,
                                      IF ok THEN Append(out, clean) ELSE out)
                      ELSE IF ok
                      THEN purifyWalk(config, rest, Append(kept, TRUE), 0,
                                      Append(out, clean))
                      ELSE IF t.tag \in ForbidContents
                      THEN purifyWalk(config, rest, kept, 1, out)
                      ELSE purifyWalk(config, rest, Append(kept, FALSE), 0, out)
             ELSE IF t.k = "close"
             THEN purifyWalk(config, rest, SubSeq(kept, 1, Len(kept) - 1), 0,
                             IF kept[Len(kept)] THEN Append(out, t) ELSE out)
             ELSE purifyWalk(config, rest, kept, 0, Append(out, t))

\* purify.sanitize(html, config)
purifySanitize(html, config) == purifyWalk(config, parseHtml(html), <<>>, 0, <<>>)

\* marked.parse of a note whose markdown is one paragraph of text and inline HTML
markedParse(markdown) == <<Open("p", {})>> \o markdown \o <<Close("p")>>

\* TemplateEngine.markdownToHtml
markdownToHtml(markdown) == purifySanitize(markedParse(markdown), DefaultConfig)

\* TemplateEngine.sanitizeHtml
sanitizeHtml(html) == purifySanitize(html, sanitizeConfig)

----------------------------------------------------------------------------
(* TemplateEngine *)

NL == Text("\n")

\* the replace chain of htmlToText up to the entities: line breaks for <br>,
\* </p>, </div> and </h1>, every other tag removed, the entities decoded
RECURSIVE stripTags(_)
stripTags(html) ==
    IF html = <<>> THEN <<>>
    ELSE LET t == Head(html)
             piece == IF t.k = "open"
                      THEN IF t.tag = "br" /\ t.attrs = {} THEN <<NL>> ELSE <<>>
                      ELSE IF t.k = "close"
                      THEN IF t.tag \in {"p", "h1"} THEN <<NL, NL>>
                           ELSE IF t.tag = "div" THEN <<NL>> ELSE <<>>
                      ELSE IF t.k = "esc" THEN <<Lit(t.esc)>>
                      ELSE <<t>>
         IN  piece \o stripTags(Tail(html))

\* .replace(/\n\s*\n\s*\n/g, '\n\n'): `run` line breaks precede the rest
RECURSIVE collapse(_, _)
collapse(text, run) ==
    IF text = <<>> THEN <<>>
    ELSE IF Head(text) = NL
         THEN IF run >= 2 THEN collapse(Tail(text), run + 1)
              ELSE <<NL>> \o collapse(Tail(text), run + 1)
         ELSE <<Head(text)>> \o collapse(Tail(text), 0)

RECURSIVE trimLeftNL(_)
trimLeftNL(text) ==
    IF text = <<>> THEN text
    ELSE IF Head(text) = NL THEN trimLeftNL(Tail(text)) ELSE text

RECURSIVE trimRightNL(_)
trimRightNL(text) ==
    IF text = <<>> THEN text
    ELSE IF text[Len(text)] = NL THEN trimRightNL(SubSeq(text, 1, Len(text) - 1))
    ELSE text

htmlToText(html) == trimRightNL(trimLeftNL(collapse(stripTags(html), 0)))

\* note.content.match(/\{\{([^}]+)\}\}/g) and the placeholder of each name
\* that has no truthy binding yet
RECURSIVE addCustom(_, _)
addCustom(content, variables) ==
    IF content = <<>> THEN variables
    ELSE LET t == Head(content)
             variableName == Trim(t.inner)
             bound == IF variableName \in DOMAIN variables
                      THEN Truthy(variables[variableName]) ELSE FALSE
         IN  addCustom(Tail(content),
                 IF IsMatch(t) /\ ~bound
                 THEN [n \in DOMAIN variables \cup {variableName} |->
                          IF n = variableName THEN <<Placeholder(variableName)>>
                          ELSE variables[n]]
                 ELSE variables)

\* the values of new Date() at the time of rendering
Timestamp == <<Text("2024-01-15T10:00:00.000Z")>>

extractNoteVariables(note) ==
    LET variables ==
            (N_note_title :> note.title) @@
            (N_note_content :> note.content) @@
            (N_note_content_html :> markdownToHtml(note.content)) @@
            (N_note_created_at :> Timestamp) @@
            (N_note_updated_at :> Timestamp) @@
            (N_today :> <<Text("2024-01-15")>>) @@
            (N_now :> Timestamp) @@
            (N_current_year :> <<Text("2024")>>) @@
            (N_current_month :> <<Text("January")>>) @@
            (N_current_date :> <<Text("1/15/2024")>>)
    IN  addCustom(note.content, variables)

\* the result of renderTemplate, or thrown when the subject or the body does
\* not parse or calls a helper that is not there
renderTemplate(template, note) ==
    LET variables == extractNoteVariables(note)
        subject == hbRender(template.subject, variables)
        bodyHtml == hbRender(template.body, variables)
        sanitizedHtml == sanitizeHtml(bodyHtml.out)
    IN  IF subject.thrown \/ bodyHtml.thrown
        THEN [thrown |-> TRUE, subject |-> <<>>, body_html |-> <<>>, body_text |-> <<>>]
        ELSE [thrown |-> FALSE, subject |-> subject.out, body_html |-> sanitizedHtml,
              body_text |-> htmlToText(sanitizedHtml)]

validateTemplate_subjectOnly(subject, body) ==
    LET errors == IF compileThrows(subject) THEN <<"Subject template error">> ELSE <<>>
    IN  [valid |-> errors = <<>>, errors |-> errors]

\* the errors of the two compile attempts
validateTemplate(subject, body) ==
    LET errors ==
            (IF compileThrows(subject) THEN <<"Subject template error">> ELSE <<>>) \o
            (IF compileThrows(body) THEN <<"Body template error">> ELSE <<>>)
    IN  [valid |-> errors = <<>>, errors |-> errors]

\* the template and the notes of the model
Subject1 == <<Mu(N_note_title)>>
Body1 == <<Open("p", {}), Raw(N_note_content_html), Close("p")>>
Body2 == <<Open("div", {}), Mu(N_note_title), Text(": "), Raw(N_note_content_html),
           Close("div")>>
Content1 == <<Text("Hi")>>
Content2 == <<Text("Bye")>>
Title1 == <<Text("Trip")>>
Subject2 == <<Text("Note: "), Mu(N_note_title)>>

Bodies == {Body1, Body2}
Contents == {Content1, Content2}

\* the sources and notes the engine is run on
SubjectEach == <<Mu(N_note_title), Text(" "), Mu(BlockOpen(N_each, N_items)),
                 Mu(N_this), Mu(BlockClose(N_each))>>
BodyPlain == <<Open("p", {}), Text("Hello"), Close("p")>>
BodyIf == <<Mu(BlockOpen(N_if, N_flag)), Open("p", {}), Mu(N_user_name), Close("p"),
            Mu(BlockClose(N_if)), Mu(BlockOpen(N_unless, N_flag)), Text("-"),
            Mu(BlockClose(N_unless))>>
BodyUnknown == <<Open("p", {}), Text("Dear "), Mu(N_unknown_var), Close("p")>>
BodyData == <<Open("div", {<<"data-id", "", "7">>, <<"style", "", "color:red">>}),
              Raw(N_note_content_html), Close("div")>>
BodyButton == <<Open("p", {}), Open("button", {}), Open("div", {}), Text("Go"),
                Close("div"), Close("button"), Close("p")>>
BodyScript == <<Open("script", {}), Text("alert(1)"), Close("script"),
                Open("form", {}), Open("input", {<<"onclick", "", "go()">>}),
                Close("form"), Raw(N_note_content_html)>>
BodyBroken == <<Mu(BlockOpen(N_if, N_flag)), Text("x")>>
BodyLinks == <<Open("a", {<<"href", "https", "//host/page">>}), Text("w"), Close("a"),
               Open("a", {<<"href", "ftp", "//host/file">>}), Text("f"), Close("a"),
               Open("a", {<<"href", "xmpp", "user@host">>}), Text("x"), Close("a"),
               Open("a", {<<"href", "javascript", "alert(1)">>}), Text("j"), Close("a"),
               Open("img", {<<"src", "data", "image/png;base64,AA">>}),
               Open("img", {<<"src", "", "logo.png">>})>>
ContentImg == <<Open("img", {<<"src", "", "x">>, <<"onerror", "", "alert(1)">>})>>
ContentMention == <<Text("Hi "), Mu(N_unknown_var)>>
ContentFlag == <<Mu(N_flag), Open("a", {<<"href", "javascript", "alert(1)">>,
                                        <<"onload", "", "x()">>}), Text("go"), Close("a")>>

EngineSubjects == {Subject1, SubjectEach}
EngineBodies == {Body1, BodyPlain, BodyIf, BodyUnknown, BodyData, BodyButton, BodyScript,
                 BodyBroken, BodyLinks}
EngineContents == {Content1, ContentImg, ContentMention, ContentFlag}

----------------------------------------------------------------------------
(* sent_emails *)

\* the rows holding an idempotency key
existingEmail(key) == {i \in DOMAIN sent : sent[i].idempotency_key = key}

\* idempotency_key VARCHAR(255) UNIQUE NOT NULL
UniqueViolation_off(key) == FALSE

UniqueViolation(key) == existingEmail(key) # {}

\* the row INSERT INTO sent_emails ... 'pending' RETURNING * creates
pendingRow(id, r, rendered, version) ==
    [id |-> id, user_id |-> r.user, note_id |-> r.note_id,
     template_id |-> r.template_id, template_version |-> version,
     idempotency_key |-> r.key, recipients |-> r.recipients,
     subject |-> rendered.subject, body_html |-> rendered.body_html,
     body_text |-> rendered.body_text, status |-> "pending",
     error_message |-> NULL, provider_message_id |-> 0, sent_at |-> 0]

\* the columns no UPDATE of the program names
Content(row) ==
    [id |-> row.id, user_id |-> row.user_id, note_id |-> row.note_id,
     template_id |-> row.template_id, template_version |-> row.template_version,
     idempotency_key |-> row.idempotency_key, recipients |-> row.recipients,
     subject |-> row.subject, body_html |-> row.body_html,
     body_text |-> row.body_text]

updateSentEmailStatus_keep(s, id, status, providerMessageId, errorMessage, t) ==
    IF id \in DOMAIN s
    THEN [s EXCEPT ![id] = [@ EXCEPT !.status = status,
                                      !.provider_message_id =
                                          IF providerMessageId = 0 THEN @ ELSE providerMessageId,
                                      !.error_message =
                                          IF errorMessage = NULL THEN @ ELSE errorMessage,
                                      !.sent_at = IF status = "sent" THEN t ELSE @]]
    ELSE s

\* EmailService.updateSentEmailStatus: an unconditional UPDATE ... WHERE id = $5
updateSentEmailStatus(s, id, status, providerMessageId, errorMessage, t) ==
    IF id \in DOMAIN s
    THEN [s EXCEPT ![id] = [@ EXCEPT !.status = status,
                                      !.provider_message_id = providerMessageId,
                                      !.error_message = errorMessage,
                                      !.sent_at = IF status = "sent" THEN t ELSE 0]]
    ELSE s

----------------------------------------------------------------------------
(* Requests *)

Idle ==
    [pc |-> "idle", op |-> NULL, user |-> NULL, snap |-> NoCreds,
     key |-> NULL, note_id |-> NULL, template_id |-> NULL, recipients |-> <<>>,
     id |-> 0, template |-> {}, rendered |-> {}, sentEmail |-> {},
     userData |-> {}, provider |-> NULL, sendResult |-> {}, resp |-> {},
     after |-> {}, conflict |-> FALSE]

\* the requests that have answered
Done == {q \in Reqs : rq[q].pc = "done"}

\* slots are taken in order
CanStart(p) == rq[p].pc = "idle" /\ (IF p = 1 THEN TRUE ELSE rq[p - 1].pc # "idle")

uuidv4(p) == "uuid-" \o ToString(p)

Reply(status, success, id, recStatus, error) ==
    [status |-> status, success |-> success, id |-> id,
     recStatus |-> recStatus, error |-> error]

\* what a run of a template handler leaves in lastWrite
Write(op, u, id, name, subject, body, validation, status) ==
    [op |-> op, user |-> u, id |-> id, name |-> name, subject |-> subject,
     body |-> body, validation |-> validation, status |-> status]

NoValidation == [valid |-> TRUE, errors |-> <<>>]

NoWrite == Write(NULL, NULL, NULL, NULL, Str(<<>>), Str(<<>>), NoValidation, 0)

----------------------------------------------------------------------------
\* the database after registration of both users, the creation of one template
\* (subject, body) and one note (content) by u1 and of one note by u2, with
\* u1's credential columns holding c
InitRows(c, subject, body, content) ==
    /\ users = [u \in Users |-> IF u = "u1" THEN c ELSE NoCreds]
    /\ templates = [t \in {"t1"} |->
           [id |-> t, user_id |-> "u1", name |-> "Welcome",
            subject |-> subject, body |-> body,
            variables |-> extractTemplateVariables(subject, body),
            version |-> 1, is_active |-> TRUE]]
    /\ versions = {}
    /\ notes = [n \in {"n1", "n2"} |->
           [user_id |-> IF n = "n1" THEN "u1" ELSE "u2",
            title |-> Title1, content |-> IF n = "n1" THEN content ELSE Content1]]
    /\ sent = <<>>
    /\ rq = [p \in Reqs |-> Idle]
    /\ calls = {}
    /\ renders = 0
    /\ now = 1
    /\ lastWrite = NoWrite

InitWith(c) == InitRows(c, Subject1, Body1, Content1)

Init == InitWith(NoCreds)

----------------------------------------------------------------------------
(* Provider adapters. `transport` is what the network does when the       *)
(* adapter contacts it, `mid` the message id a successful send returns; 0  *)
(* stands for the empty message id ''. Every statement of either sendEmail *)
(* is inside its try block and the catch block builds the failure result.  *)

\* what the token endpoint and the SMTP transport of Gmail can do
GmailTransport == {"ok", "refresh_failed", "network_error"}
\* what the HTTP endpoint of Nylas can do: a 2xx answer with or without an id
\* in its JSON, a 2xx answer that is no JSON, an error status, a failed fetch
NylasTransport == {"ok", "ok_no_id", "bad_body", "http_error", "network_error"}

Transport == GmailTransport \cup NylasTransport

TransportOf(provider) == IF provider = "nylas" THEN NylasTransport ELSE GmailTransport

\* the result of the catch block of an adapter
sendFailure(contacted, grant, error) ==
    [success |-> FALSE, messageId |-> 0, thrown |-> FALSE, contacted |-> contacted,
     grant |-> grant, error |-> error]

gmailSendEmail_propagate(user, transport, mid) ==
    IF user.gmail_refresh_token = NULL
    THEN sendFailure(FALSE, NULL, "User has not authorized Gmail access")
    ELSE IF transport = "ok"
         THEN [success |-> TRUE, messageId |-> mid, thrown |-> FALSE, contacted |-> TRUE,
               grant |-> NULL, error |-> NULL]
         ELSE [success |-> FALSE, messageId |-> 0, thrown |-> TRUE, contacted |-> TRUE,
               grant |-> NULL, error |-> NULL]

\* EmailService.sendEmail: no transport is contacted without a refresh token;
\* a failed token refresh and a failed sendMail are caught
gmailSendEmail(user, transport, mid) ==
    IF user.gmail_refresh_token = NULL
    THEN sendFailure(FALSE, NULL, "User has not authorized Gmail access")
    ELSE IF transport = "ok"
         THEN [success |-> TRUE, messageId |-> mid, thrown |-> FALSE, contacted |-> TRUE,
               grant |-> NULL, error |-> NULL]
         ELSE IF transport = "refresh_failed"
         THEN sendFailure(TRUE, NULL, "invalid_grant")
         ELSE sendFailure(TRUE, NULL, "Gmail transport error")

\* NylasEmailService.sendEmail: the endpoint is built from a literal grant id;
\* the throws for an error status and for an unparsable body and the
\* rejection of fetch are caught
nylasSendEmail(grantId, transport, mid) ==
    IF transport = "ok"
    THEN [success |-> TRUE, messageId |-> mid, thrown |-> FALSE, contacted |-> TRUE,
          grant |-> HardcodedGrant, error |-> NULL]
    ELSE IF transport = "ok_no_id"
    THEN [success |-> TRUE, messageId |-> 0, thrown |-> FALSE, contacted |-> TRUE,
          grant |-> HardcodedGrant, error |-> NULL]
    ELSE IF transport = "bad_body"
    THEN sendFailure(TRUE, HardcodedGrant, "Invalid JSON response from Nylas API")
    ELSE IF transport = "http_error"
    THEN sendFailure(TRUE, HardcodedGrant, "HTTP 500")
    ELSE sendFailure(TRUE, HardcodedGrant, "Nylas transport error")

\* the throw of the else branch of the provider selection
NoServiceError ==
    [success |-> FALSE, messageId |-> 0, thrown |-> TRUE, contacted |-> FALSE,
     grant |-> NULL,
     error |-> "No email service configured. Please authorize Nylas or Gmail."]

\* what an adapter was handed
Handed(recipients, subject, body_html, body_text) ==
    [recipients |-> recipients, subject |-> subject,
     body_html |-> body_html, body_text |-> body_text]

CallRecord(p, via, row, provider, handed, result) ==
    [req |-> p, via |-> via, rec |-> row.id, key |-> row.idempotency_key,
     owner |-> rq[p].user, provider |-> provider, handed |-> handed,
     grant |-> result.grant, success |-> result.success,
     contacted |-> result.contacted,
     snap |-> rq[p].snap, userData |-> users[rq[p].user]]

----------------------------------------------------------------------------
(* POST /send *)

\* authenticateToken, the 400 check and the key default (lines 17-29)
DispatchStart(p, u, note_id, template_id, recipients, idempotency_key) ==
    /\ CanStart(p)
    /\ rq' = [rq EXCEPT ![p] =
          IF note_id = NULL \/ template_id = NULL \/ recipients = <<>>
          THEN [Idle EXCEPT !.pc = "done", !.op = "dispatch", !.user = u,
                   !.snap = users[u], !.after = Done,
                   !.resp = {Reply(400, FALSE, 0, NULL,
                       "Note ID, template ID, and recipients are required")}]
          ELSE [Idle EXCEPT !.pc = "lookup", !.op = "dispatch", !.user = u,
                   !.snap = users[u], !.after = Done,
                   !.note_id = note_id, !.template_id = template_id,
                   !.recipients = recipients,
                   !.key = IF idempotency_key = NULL THEN uuidv4(p)
                           ELSE idempotency_key]]
    /\ UNCHANGED <<users, templates, versions, notes, sent, calls, renders, now, lastWrite>>

\* the idempotency lookup and the replay answer (lines 31-48)
DispatchLookup_blind(p) ==
    /\ rq[p].pc = "lookup"
    /\ rq' = [rq EXCEPT ![p].pc = "template"]
    /\ UNCHANGED <<users, templates, versions, notes, sent, calls, renders, now, lastWrite>>

DispatchLookup_afterRender(p) ==
    /\ rq[p].pc = "lookup"
    /\ IF existingEmail(rq[p].key) # {}
       THEN LET existing == sent[CHOOSE i \in existingEmail(rq[p].key) : TRUE]
            IN  rq' = [rq EXCEPT ![p].pc = "done",
                          ![p].resp = {Reply(200, TRUE, existing.id, existing.status,
                                             "Email already processed (idempotent)")}]
       ELSE rq' = [rq EXCEPT ![p].pc = "template"]
    /\ renders' = renders + 1
    /\ UNCHANGED <<users, templates, versions, notes, sent, calls, now, lastWrite>>

DispatchLookup(p) ==
    /\ rq[p].pc = "lookup"
    /\ IF existingEmail(rq[p].key) # {}
       THEN LET existing == sent[CHOOSE i \in existingEmail(rq[p].key) : TRUE]
            IN  rq' = [rq EXCEPT ![p].pc = "done",
                          ![p].resp = {Reply(200, TRUE, existing.id, existing.status,
                                             "Email already processed (idempotent)")}]
       ELSE rq' = [rq EXCEPT ![p].pc = "template"]
    /\ UNCHANGED <<users, templates, versions, notes, sent, calls, renders, now, lastWrite>>

\* SELECT the active template of the caller (lines 50-58)
DispatchTemplate_ignoreActive(p) ==
    /\ rq[p].pc = "template"
    /\ LET id == rq[p].template_id
           found == /\ id \in DOMAIN templates
                    /\ templates[id].user_id = rq[p].user
       IN  IF found
           THEN rq' = [rq EXCEPT ![p].pc = "note", ![p].template = {templates[id]}]
           ELSE rq' = [rq EXCEPT ![p].pc = "done",
                          ![p].resp = {Reply(404, FALSE, 0, NULL, "Template not found")}]
    /\ UNCHANGED <<users, templates, versions, notes, sent, calls, renders, now, lastWrite>>

DispatchTemplate(p) ==
    /\ rq[p].pc = "template"
    /\ LET id == rq[p].template_id
           found == /\ id \in DOMAIN templates
                    /\ templates[id].user_id = rq[p].user
                    /\ templates[id].is_active
       IN  IF found
           THEN rq' = [rq EXCEPT ![p].pc = "note", ![p].template = {templates[id]}]
           ELSE rq' = [rq EXCEPT ![p].pc = "done",
                          ![p].resp = {Reply(404, FALSE, 0, NULL, "Template not found")}]
    /\ UNCHANGED <<users, templates, versions, notes, sent, calls, renders, now, lastWrite>>

DispatchNote_credsFirst(p) ==
    /\ rq[p].pc = "note"
    /\ LET id == rq[p].note_id
           found == id \in DOMAIN notes /\ notes[id].user_id = rq[p].user
           template == CHOOSE t \in rq[p].template : TRUE
           rendered == renderTemplate(template, notes[id])
       IN  IF found
           THEN /\ rq' = IF rendered.thrown
                         THEN [rq EXCEPT ![p].pc = "done",
                                  ![p].resp = {Reply(500, FALSE, 0, NULL,
                                                     "Failed to send email")}]
                         ELSE [rq EXCEPT ![p].pc = "insert", ![p].rendered = {rendered},
                                  ![p].userData = {users[rq[p].user]}]
                /\ renders' = renders + 1
           ELSE /\ rq' = [rq EXCEPT ![p].pc = "done",
                             ![p].resp = {Reply(404, FALSE, 0, NULL, "Note not found")}]
                /\ UNCHANGED renders
    /\ UNCHANGED <<users, templates, versions, notes, sent, calls, now, lastWrite>>

\* SELECT the note of the caller, then render; a throw of renderTemplate lands
\* in the outer catch (lines 60-74, 170-173)
DispatchNote(p) ==
    /\ rq[p].pc = "note"
    /\ LET id == rq[p].note_id
           found == id \in DOMAIN notes /\ notes[id].user_id = rq[p].user
           template == CHOOSE t \in rq[p].template : TRUE
           rendered == renderTemplate(template, notes[id])
       IN  IF found
           THEN /\ rq' = IF rendered.thrown
                         THEN [rq EXCEPT ![p].pc = "done",
                                  ![p].resp = {Reply(500, FALSE, 0, NULL,
                                                     "Failed to send email")}]
                         ELSE [rq EXCEPT ![p].pc = "insert", ![p].rendered = {rendered}]
                /\ renders' = renders + 1
           ELSE /\ rq' = [rq EXCEPT ![p].pc = "done",
                             ![p].resp = {Reply(404, FALSE, 0, NULL, "Note not found")}]
                /\ UNCHANGED renders
    /\ UNCHANGED <<users, templates, versions, notes, sent, calls, now, lastWrite>>

DispatchInsert_rereadVersion(p) ==
    /\ rq[p].pc = "insert"
    /\ IF UniqueViolation(rq[p].key)
       THEN /\ rq' = [rq EXCEPT ![p].pc = "done", ![p].conflict = TRUE,
                         ![p].resp = {Reply(500, FALSE, 0, NULL, "Failed to send email")}]
            /\ UNCHANGED sent
       ELSE LET template == CHOOSE t \in rq[p].template : TRUE
                rendered == CHOOSE r \in rq[p].rendered : TRUE
                row == pendingRow(Len(sent) + 1, rq[p], rendered, templates[rq[p].template_id].version)
            IN  /\ sent' = Append(sent, row)
                /\ rq' = [rq EXCEPT ![p].pc = "creds", ![p].sentEmail = {row}]
    /\ UNCHANGED <<users, templates, versions, notes, calls, renders, now, lastWrite>>

\* INSERT the pending row; a unique violation lands in the outer catch (lines 76-93, 170-173)
DispatchInsert(p) ==
    /\ rq[p].pc = "insert"
    /\ IF UniqueViolation(rq[p].key)
       THEN /\ rq' = [rq EXCEPT ![p].pc = "done", ![p].conflict = TRUE,
                         ![p].resp = {Reply(500, FALSE, 0, NULL, "Failed to send email")}]
            /\ UNCHANGED sent
       ELSE LET template == CHOOSE t \in rq[p].template : TRUE
                rendered == CHOOSE r \in rq[p].rendered : TRUE
                row == pendingRow(Len(sent) + 1, rq[p], rendered, template.version)
            IN  /\ sent' = Append(sent, row)
                /\ rq' = [rq EXCEPT ![p].pc = "creds", ![p].sentEmail = {row}]
    /\ UNCHANGED <<users, templates, versions, notes, calls, renders, now, lastWrite>>

DispatchCreds_throwOutside(p) ==
    /\ rq[p].pc = "creds"
    /\ LET userData == users[rq[p].user]
           provider == selectProvider(userData)
       IN  rq' = [rq EXCEPT ![p].userData = {userData}, ![p].provider = provider,
                     ![p].pc = IF provider = "none" THEN "done" ELSE "send",
                     ![p].resp = IF provider = "none"
                                 THEN {Reply(500, FALSE, 0, NULL, "Failed to send email")}
                                 ELSE {}]
    /\ UNCHANGED <<users, templates, versions, notes, sent, calls, renders, now, lastWrite>>

\* SELECT the credentials and pick the provider (lines 95-105, 114, 123-125)
DispatchCreds(p) ==
    /\ rq[p].pc = "creds"
    /\ LET userData == users[rq[p].user]
           provider == selectProvider(userData)
       IN  rq' = [rq EXCEPT ![p].userData = {userData}, ![p].provider = provider,
                     ![p].pc = IF provider = "none" THEN "finalize" ELSE "send",
                     ![p].sendResult = IF provider = "none" THEN {NoServiceError} ELSE {}]
    /\ UNCHANGED <<users, templates, versions, notes, sent, calls, renders, now, lastWrite>>

\* the adapter call of the chosen branch (lines 105-122)
DispatchSend(p, transport) ==
    /\ rq[p].pc = "send"
    /\ transport \in TransportOf(rq[p].provider)
    /\ LET rendered == CHOOSE r \in rq[p].rendered : TRUE
           userData == CHOOSE d \in rq[p].userData : TRUE
           row == CHOOSE r \in rq[p].sentEmail : TRUE
           handed == Handed(rq[p].recipients, rendered.subject,
                            rendered.body_html, rendered.body_text)
           result == IF rq[p].provider = "nylas"
                     THEN nylasSendEmail(userData.nylas_access_token, transport, p)
                     ELSE gmailSendEmail(rq[p].snap, transport, p)
       IN  /\ calls' = calls \cup
                  {CallRecord(p, "dispatch", row, rq[p].provider, handed, result)}
           /\ rq' = [rq EXCEPT ![p].pc = "finalize", ![p].sendResult = {result}]
    /\ UNCHANGED <<users, templates, versions, notes, sent, renders, now, lastWrite>>

DispatchFinalize_fallback(p) ==
    /\ rq[p].pc = "finalize"
    /\ LET sendResult == CHOOSE r \in rq[p].sendResult : TRUE
           sentEmail == CHOOSE r \in rq[p].sentEmail : TRUE
           userData == CHOOSE d \in rq[p].userData : TRUE
       IN  IF sendResult.success
           THEN /\ sent' = updateSentEmailStatus(sent, sentEmail.id, "sent",
                                                 sendResult.messageId, NULL, now)
                /\ rq' = [rq EXCEPT ![p].pc = "done",
                             ![p].resp = {Reply(200, TRUE, sentEmail.id, "sent",
                                                "Email sent successfully")}]
           ELSE IF /\ rq[p].provider = "nylas"
                   /\ (userData.gmail_access_token # NULL \/ userData.gmail_refresh_token # NULL)
           THEN /\ sent' = sent
                /\ rq' = [rq EXCEPT ![p].pc = "send", ![p].provider = "gmail",
                             ![p].sendResult = {}]
           ELSE /\ sent' = updateSentEmailStatus(sent, sentEmail.id, "failed",
                                                 0, sendResult.error, now)
                /\ rq' = [rq EXCEPT ![p].pc = "done",
                             ![p].resp = {Reply(500, FALSE, 0, NULL, "Failed to send email")}]
    /\ now' = now + 1
    /\ UNCHANGED <<users, templates, versions, notes, calls, renders, lastWrite>>

\* the finalize step and the answer (lines 127-173)
DispatchFinalize(p) ==
    /\ rq[p].pc = "finalize"
    /\ LET sendResult == CHOOSE r \in rq[p].sendResult : TRUE
           sentEmail == CHOOSE r \in rq[p].sentEmail : TRUE
       IN  IF sendResult.success
           THEN /\ sent' = updateSentEmailStatus(sent, sentEmail.id, "sent",
                                                 sendResult.messageId, NULL, now)
                /\ rq' = [rq EXCEPT ![p].pc = "done",
                             ![p].resp = {Reply(200, TRUE, sentEmail.id, "sent",
                                                "Email sent successfully")}]
           ELSE /\ sent' = updateSentEmailStatus(sent, sentEmail.id, "failed",
                                                 0, sendResult.error, now)
                /\ rq' = [rq EXCEPT ![p].pc = "done",
                             ![p].resp = {Reply(500, FALSE, 0, NULL, "Failed to send email")}]
    /\ now' = now + 1
    /\ UNCHANGED <<users, templates, versions, notes, calls, renders, lastWrite>>

----------------------------------------------------------------------------
(* POST /sent/:id/retry *)

\* authenticateToken (line 243)
RetryStart(p, u, id) ==
    /\ CanStart(p)
    /\ rq' = [rq EXCEPT ![p] = [Idle EXCEPT !.pc = "rlookup", !.op = "retry",
                                   !.user = u, !.snap = users[u], !.after = Done,
                                   !.id = id]]
    /\ UNCHANGED <<users, templates, versions, notes, sent, calls, renders, now, lastWrite>>

\* SELECT ... WHERE id = $1 AND user_id = $2 AND status = 'failed' (lines 247-257)
RetryLookup_anyStatus(p) ==
    /\ rq[p].pc = "rlookup"
    /\ LET id == rq[p].id
           found == id \in DOMAIN sent /\ sent[id].user_id = rq[p].user
       IN  IF found
           THEN rq' = [rq EXCEPT ![p].pc = "rsend", ![p].sentEmail = {sent[id]}]
           ELSE rq' = [rq EXCEPT ![p].pc = "done",
                          ![p].resp = {Reply(404, FALSE, 0, NULL, "Failed email not found")}]
    /\ UNCHANGED <<users, templates, versions, notes, sent, calls, renders, now, lastWrite>>

RetryLookup(p) ==
    /\ rq[p].pc = "rlookup"
    /\ LET id == rq[p].id
           found == /\ id \in DOMAIN sent
                    /\ sent[id].user_id = rq[p].user
                    /\ sent[id].status = "failed"
       IN  IF found
           THEN rq' = [rq EXCEPT ![p].pc = "rsend", ![p].sentEmail = {sent[id]}]
           ELSE rq' = [rq EXCEPT ![p].pc = "done",
                          ![p].resp = {Reply(404, FALSE, 0, NULL, "Failed email not found")}]
    /\ UNCHANGED <<users, templates, versions, notes, sent, calls, renders, now, lastWrite>>

\* emailService.sendEmail with the stored content (lines 259-267)
RetrySend_rerender(p, transport) ==
    /\ rq[p].pc = "rsend"
    /\ transport \in GmailTransport
    /\ LET sentEmail == CHOOSE r \in rq[p].sentEmail : TRUE
           rendered == renderTemplate(templates[sentEmail.template_id],
                                      notes[sentEmail.note_id])
           handed == Handed(sentEmail.recipients, rendered.subject,
                            rendered.body_html, rendered.body_text)
           result == gmailSendEmail(rq[p].snap, transport, p)
       IN  /\ calls' = calls \cup {CallRecord(p, "retry", sentEmail, "gmail", handed, result)}
           /\ rq' = [rq EXCEPT ![p].pc = "rfinalize", ![p].provider = "gmail",
                         ![p].sendResult = {result}]
    /\ UNCHANGED <<users, templates, versions, notes, sent, renders, now, lastWrite>>

RetrySend(p, transport) ==
    /\ rq[p].pc = "rsend"
    /\ transport \in GmailTransport
    /\ LET sentEmail == CHOOSE r \in rq[p].sentEmail : TRUE
           handed == Handed(sentEmail.recipients, sentEmail.subject,
                            sentEmail.body_html, sentEmail.body_text)
           result == gmailSendEmail(rq[p].snap, transport, p)
       IN  /\ calls' = calls \cup {CallRecord(p, "retry", sentEmail, "gmail", handed, result)}
           /\ rq' = [rq EXCEPT ![p].pc = "rfinalize", ![p].provider = "gmail",
                         ![p].sendResult = {result}]
    /\ UNCHANGED <<users, templates, versions, notes, sent, renders, now, lastWrite>>

\* the finalize step of the retry and the answer (lines 269-300)
RetryFinalize(p) ==
    /\ rq[p].pc = "rfinalize"
    /\ LET sendResult == CHOOSE r \in rq[p].sendResult : TRUE
           sentEmail == CHOOSE r \in rq[p].sentEmail : TRUE
       IN  IF sendResult.success
           THEN /\ sent' = updateSentEmailStatus(sent, sentEmail.id, "sent",
                                                 sendResult.messageId, NULL, now)
                /\ rq' = [rq EXCEPT ![p].pc = "done",
                             ![p].resp = {Reply(200, TRUE, sentEmail.id, "sent",
                                                "Email sent successfully")}]
           ELSE /\ sent' = updateSentEmailStatus(sent, sentEmail.id, "failed",
                                                 0, sendResult.error, now)
                /\ rq' = [rq EXCEPT ![p].pc = "done",
                             ![p].resp = {Reply(500, FALSE, 0, NULL, "Failed to send email")}]
    /\ now' = now + 1
    /\ UNCHANGED <<users, templates, versions, notes, calls, renders, lastWrite>>

----------------------------------------------------------------------------
(* POST /templates/:templateId/preview/:noteId *)

\* authenticateToken (line 156)
PreviewStart(p, u, templateId, noteId) ==
    /\ CanStart(p)
    /\ rq' = [rq EXCEPT ![p] = [Idle EXCEPT !.pc = "ptemplate", !.op = "preview",
                                   !.user = u, !.snap = users[u], !.after = Done,
                                   !.template_id = templateId, !.note_id = noteId]]
    /\ UNCHANGED <<users, templates, versions, notes, sent, calls, renders, now, lastWrite>>

\* SELECT the active template of the caller (lines 160-168)
PreviewTemplate_deactivate(p) ==
    /\ rq[p].pc = "ptemplate"
    /\ LET id == rq[p].template_id
           found == IF id \in DOMAIN templates
                    THEN templates[id].user_id = rq[p].user /\ templates[id].is_active
                    ELSE FALSE
       IN  IF found
           THEN /\ rq' = [rq EXCEPT ![p].pc = "pnote", ![p].template = {templates[id]}]
                /\ templates' = [templates EXCEPT ![id].is_active = FALSE]
           ELSE /\ rq' = [rq EXCEPT ![p].pc = "done",
                             ![p].resp = {Reply(404, FALSE, 0, NULL, "Template not found")}]
                /\ UNCHANGED templates
    /\ UNCHANGED <<users, versions, notes, sent, calls, renders, now, lastWrite>>

PreviewTemplate(p) ==
    /\ rq[p].pc = "ptemplate"
    /\ LET id == rq[p].template_id
           found == IF id \in DOMAIN templates
                    THEN templates[id].user_id = rq[p].user /\ templates[id].is_active
                    ELSE FALSE
       IN  IF found
           THEN rq' = [rq EXCEPT ![p].pc = "pnote", ![p].template = {templates[id]}]
           ELSE rq' = [rq EXCEPT ![p].pc = "done",
                          ![p].resp = {Reply(404, FALSE, 0, NULL, "Template not found")}]
    /\ UNCHANGED <<users, templates, versions, notes, sent, calls, renders, now, lastWrite>>

\* SELECT the note of the caller, render and answer (lines 170-193)
PreviewNote(p) ==
    /\ rq[p].pc = "pnote"
    /\ LET id == rq[p].note_id
           found == IF id \in DOMAIN notes THEN notes[id].user_id = rq[p].user ELSE FALSE
           template == CHOOSE t \in rq[p].template : TRUE
           rendered == renderTemplate(template, notes[id])
       IN  IF found
           THEN /\ rq' = IF rendered.thrown
                         THEN [rq EXCEPT ![p].pc = "done",
                                  ![p].resp = {Reply(500, FALSE, 0, NULL,
                                                     "Failed to preview template")}]
                         ELSE [rq EXCEPT ![p].pc = "done", ![p].rendered = {rendered},
                                  ![p].resp = {Reply(200, TRUE, 0, NULL, "")}]
                /\ renders' = renders + 1
           ELSE /\ rq' = [rq EXCEPT ![p].pc = "done",
                             ![p].resp = {Reply(404, FALSE, 0, NULL, "Note not found")}]
                /\ UNCHANGED renders
    /\ UNCHANGED <<users, templates, versions, notes, sent, calls, now, lastWrite>>

----------------------------------------------------------------------------
(* The other writers of the tables the pipeline reads. *)

NylasCallback(u) ==
    /\ users' = [users EXCEPT ![u] = nylasCallback(@, u)]
    /\ UNCHANGED <<templates, versions, notes, sent, rq, calls, renders, now, lastWrite>>

NylasRevoke(u) ==
    /\ users' = [users EXCEPT ![u] = nylasRevoke(@)]
    /\ UNCHANGED <<templates, versions, notes, sent, rq, calls, renders, now, lastWrite>>

GmailCallback(u) ==
    /\ users' = [users EXCEPT ![u] = gmailCallback(@)]
    /\ UNCHANGED <<templates, versions, notes, sent, rq, calls, renders, now, lastWrite>>

\* the BEFORE UPDATE trigger of email_templates
create_template_version_onAnyChange(old, new) ==
    IF old # new
    THEN [row |-> [new EXCEPT !.version = old.version + 1],
          snapshot |-> {[template_id |-> old.id, version |-> old.version,
                         subject |-> old.subject, body |-> old.body,
                         variables |-> old.variables]}]
    ELSE [row |-> new, snapshot |-> {}]

create_template_version(old, new) ==
    IF old.subject # new.subject \/ old.body # new.body \/ old.variables # new.variables
    THEN [row |-> [new EXCEPT !.version = old.version + 1],
          snapshot |-> {[template_id |-> old.id, version |-> old.version,
                         subject |-> old.subject, body |-> old.body,
                         variables |-> old.variables]}]
    ELSE [row |-> new, snapshot |-> {}]

\* the 400 check of the create and update handlers: !name || !subject || !body
Missing(name, subject, body) ==
    name = NULL \/ subject = Str(<<>>) \/ body = Str(<<>>)

\* the id gen_random_uuid() gives the next template
NewTemplateId == "t" \o ToString(Cardinality(DOMAIN templates) + 1)

\* POST /templates
TemplateCreate(u, name, subject, body) ==
    /\ LET validation == validateTemplate(subject, body)
           id == NewTemplateId
       IN  IF Missing(name, subject, body)
           THEN /\ lastWrite' = Write("create", u, NULL, name, subject, body, NoValidation, 400)
                /\ UNCHANGED <<templates, versions>>
           ELSE IF ~validation.valid
           THEN /\ lastWrite' = Write("create", u, NULL, name, subject, body, validation, 400)
                /\ UNCHANGED <<templates, versions>>
           ELSE /\ templates' = [t \in DOMAIN templates \cup {id} |->
                       IF t = id
                       THEN [id |-> id, user_id |-> u, name |-> name,
                             subject |-> subject.v, body |-> body.v,
                             variables |-> extractTemplateVariables(subject.v, body.v),
                             version |-> 1, is_active |-> TRUE]
                       ELSE templates[t]]
                /\ lastWrite' = Write("create", u, id, name, subject, body, validation, 201)
                /\ UNCHANGED versions
    /\ UNCHANGED <<users, notes, sent, rq, calls, renders, now>>

\* PUT /templates/:id
TemplateUpdate(u, id, name, subject, body) ==
    /\ LET validation == validateTemplate(subject, body)
           found == IF id \in DOMAIN templates
                    THEN templates[id].user_id = u /\ templates[id].is_active
                    ELSE FALSE
       IN  IF Missing(name, subject, body)
           THEN /\ lastWrite' = Write("update", u, id, name, subject, body, NoValidation, 400)
                /\ UNCHANGED <<templates, versions>>
           ELSE IF ~validation.valid
           THEN /\ lastWrite' = Write("update", u, id, name, subject, body, validation, 400)
                /\ UNCHANGED <<templates, versions>>
           ELSE IF ~found
           THEN /\ lastWrite' = Write("update", u, id, name, subject, body, validation, 404)
                /\ UNCHANGED <<templates, versions>>
           ELSE LET old == templates[id]
                    new == [old EXCEPT !.name = name, !.subject = subject.v,
                               !.body = body.v,
                               !.variables = extractTemplateVariables(subject.v, body.v)]
                    out == create_template_version(old, new)
                IN  /\ templates' = [templates EXCEPT ![id] = out.row]
                    /\ versions' = versions \cup out.snapshot
                    /\ lastWrite' = Write("update", u, id, name, subject, body,
                                          validation, 200)
    /\ UNCHANGED <<users, notes, sent, rq, calls, renders, now>>

TemplateDelete_purge(u, id) ==
    /\ LET found == IF id \in DOMAIN templates
                    THEN templates[id].user_id = u /\ templates[id].is_active
                    ELSE FALSE
       IN  IF found
           THEN LET old == templates[id]
                    out == create_template_version(old, [old EXCEPT !.is_active = FALSE])
                IN  /\ templates' = [templates EXCEPT ![id] = out.row]
                    /\ versions' = {v \in versions : v.template_id # id}
                    /\ lastWrite' = Write("delete", u, id, NULL, Str(<<>>), Str(<<>>),
                                          NoValidation, 200)
           ELSE /\ lastWrite' = Write("delete", u, id, NULL, Str(<<>>), Str(<<>>),
                                      NoValidation, 404)
                /\ UNCHANGED <<templates, versions>>
    /\ UNCHANGED <<users, notes, sent, rq, calls, renders, now>>

\* DELETE /templates/:id: UPDATE ... SET is_active = false
TemplateDelete(u, id) ==
    /\ LET found == IF id \in DOMAIN templates
                    THEN templates[id].user_id = u /\ templates[id].is_active
                    ELSE FALSE
       IN  IF found
           THEN LET old == templates[id]
                    out == create_template_version(old, [old EXCEPT !.is_active = FALSE])
                IN  /\ templates' = [templates EXCEPT ![id] = out.row]
                    /\ versions' = versions \cup out.snapshot
                    /\ lastWrite' = Write("delete", u, id, NULL, Str(<<>>), Str(<<>>),
                                          NoValidation, 200)
           ELSE /\ lastWrite' = Write("delete", u, id, NULL, Str(<<>>), Str(<<>>),
                                      NoValidation, 404)
                /\ UNCHANGED <<templates, versions>>
    /\ UNCHANGED <<users, notes, sent, rq, calls, renders, now>>

\* PUT /notes/:id
NoteUpdate(u, id, title, content) ==
    /\ id \in DOMAIN notes
    /\ notes[id].user_id = u
    /\ notes' = [notes EXCEPT ![id] = [@ EXCEPT !.title = title, !.content = content]]
    /\ UNCHANGED <<users, templates, versions, sent, rq, calls, renders, now, lastWrite>>

----------------------------------------------------------------------------
(* Specifications *)

\* one step of a request that has started, the transport doing one of `outcomes`
StepOn(p, outcomes) ==
    \/ DispatchLookup(p)
    \/ DispatchTemplate(p)
    \/ DispatchNote(p)
    \/ DispatchInsert(p)
    \/ DispatchCreds(p)
    \/ \E transport \in outcomes : DispatchSend(p, transport)
    \/ DispatchFinalize(p)
    \/ RetryLookup(p)
    \/ \E transport \in outcomes : RetrySend(p, transport)
    \/ RetryFinalize(p)

\* one step of a request, the transport delivering or failing
Step(p) == StepOn(p, {"ok", "network_error"})

\* the credential states the OAuth callbacks and the revoke can produce
ReachableCreds(u) ==
    {NoCreds, nylasCallback(NoCreds, u), gmailCallback(NoCreds),
     gmailCallback(nylasCallback(NoCreds, u))}

\* Dispatches and retries racing on one key and one record; the owner's
\* credentials are any the callbacks produce and stay as they are.
InitRace == \E c \in ReachableCreds("u1") : InitWith(c)

Next ==
    \/ \E p \in Reqs, u \in Users : DispatchStart(p, u, "n1", "t1", Recipients, "k1")
    \/ \E p \in Reqs, u \in Users : RetryStart(p, u, 1)
    \/ \E p \in Reqs : Step(p)

Spec == InitRace /\ [][Next]_vars

\* Two requests of the owner while the credentials change under them.
NextCred ==
    \/ \E p \in ReqsEdit, k \in {"k1", NULL} :
           DispatchStart(p, "u1", "n1", "t1", Recipients, k)
    \/ \E p \in ReqsEdit, id \in 1..2 : RetryStart(p, "u1", id)
    \/ \E p \in ReqsEdit : Step(p)
    \/ NylasCallback("u1")
    \/ NylasRevoke("u1")
    \/ GmailCallback("u1")

SpecCred == Init /\ [][NextCred]_vars

\* Two requests of the owner while the template and the note are edited;
\* the owner has authorized Gmail.
InitEdit == InitWith(gmailCallback(NoCreds))

NextEdit ==
    \/ \E p \in ReqsEdit : DispatchStart(p, "u1", "n1", "t1", Recipients, "k1")
    \/ \E p \in ReqsEdit : RetryStart(p, "u1", 1)
    \/ \E p \in ReqsEdit : Step(p)
    \/ /\ templates["t1"].version < MaxVersion
       /\ \E body \in Bodies : TemplateUpdate("u1", "t1", "Welcome", Str(Subject1), Str(body))
    \/ \E content \in Contents : NoteUpdate("u1", "n1", Title1, content)

SpecEdit == InitEdit /\ [][NextEdit]_vars

\* Two requests of the owner from every value the credential columns can hold.
InitSelect == \E c \in AllCreds("u1") : InitWith(c)

NextSelect ==
    \/ \E p \in ReqsEdit, k \in {"k1", "k2"} :
           DispatchStart(p, "u1", "n1", "t1", Recipients, k)
    \/ \E p \in ReqsEdit, id \in 1..2 : RetryStart(p, "u1", id)
    \/ \E p \in ReqsEdit : Step(p)

SpecSelect == InitSelect /\ [][NextSelect]_vars

\* Two requests of the owner from every value the credential columns can hold
\* and with everything the transports can do.
NextSend ==
    \/ \E p \in ReqsEdit : DispatchStart(p, "u1", "n1", "t1", Recipients, NULL)
    \/ \E p \in ReqsEdit : RetryStart(p, "u1", 1)
    \/ \E p \in ReqsEdit : StepOn(p, Transport)

SpecSend == InitSelect /\ [][NextSend]_vars

\* the steps of a request from the read of the credentials on: the provider
\* call and the database calls around it
ProviderStep(p) ==
    \/ DispatchCreds(p)
    \/ \E transport \in Transport : DispatchSend(p, transport)
    \/ DispatchFinalize(p)
    \/ \E transport \in Transport : RetrySend(p, transport)
    \/ RetryFinalize(p)

\* The same requests from the credentials the callbacks produce; the provider
\* call and the database calls of a request that has inserted or found its
\* row return.
FairSend == \A p \in ReqsEdit : WF_vars(ProviderStep(p))

SpecLive == InitRace /\ [][NextSend]_vars /\ FairSend

\* Two requests of either user for rows that exist, do not exist or belong to
\* the other user, while the owner deletes the template.
NextLoad ==
    \/ \E p \in ReqsEdit, n \in {"n1", "n2", "nX"}, t \in {"t1", "tX"} :
           DispatchStart(p, "u1", n, t, Recipients, NULL)
    \/ \E p \in ReqsEdit : DispatchStart(p, "u2", "n2", "t1", Recipients, NULL)
    \/ \E p \in ReqsEdit : RetryStart(p, "u1", 1)
    \/ \E p \in ReqsEdit : Step(p)
    \/ TemplateDelete("u1", "t1")

SpecLoad == InitEdit /\ [][NextLoad]_vars

\* The owner saves, renames and deletes the template, the other user tries to
\* save it and creates templates of their own; a subject or body of a request
\* may be empty or no string; nothing is sent.
NextStore ==
    \/ /\ templates["t1"].version < MaxStoreVersion
       /\ \E name \in {"Welcome", "Hello"},
             subject \in {Str(Subject1), Str(Subject2), NotStr, Str(<<>>)},
             body \in {Str(b) : b \in Bodies} \cup {NotStr} :
              TemplateUpdate("u1", "t1", name, subject, body)
    \/ \E body \in Bodies : TemplateUpdate("u2", "t1", "Mine", Str(Subject1), Str(body))
    \/ /\ Cardinality(DOMAIN templates) < MaxTemplates
       /\ \E subject \in {Str(Subject1), NotStr}, body \in {Str(Body1), NotStr, Str(<<>>)} :
              TemplateCreate("u2", "Mine", subject, body)
    \/ TemplateDelete("u1", "t1")

SpecStore == Init /\ [][NextStore]_vars

\* Previews of a template and a note drawn from the sources and notes above.
InitEngine ==
    \E subject \in EngineSubjects, body \in EngineBodies, content \in EngineContents :
        InitRows(NoCreds, subject, body, content)

NextEngine ==
    \/ \E p \in ReqsEdit, t \in {"t1", "tX"}, n \in {"n1", "n2"} :
           PreviewStart(p, "u1", t, n)
    \/ \E p \in ReqsEdit : PreviewTemplate(p)
    \/ \E p \in ReqsEdit : PreviewNote(p)

SpecEngine == InitEngine /\ [][NextEngine]_vars

\* Previews while the owner saves a body that does not parse, edits the note
\* and deletes the template.
NextPreview ==
    \/ \E p \in ReqsEdit, t \in {"t1", "tX"}, n \in {"n1", "n2", "nX"} :
           PreviewStart(p, "u1", t, n)
    \/ \E p \in ReqsEdit : PreviewTemplate(p)
    \/ \E p \in ReqsEdit : PreviewNote(p)
    \/ /\ templates["t1"].version < MaxVersion
       /\ TemplateUpdate("u1", "t1", "Welcome", Str(Subject1), Str(BodyBroken))
    \/ \E content \in Contents : NoteUpdate("u1", "n1", Title1, content)
    \/ TemplateDelete("u1", "t1")

SpecPreview == Init /\ [][NextPreview]_vars

----------------------------------------------------------------------------
(* Properties *)

\* the dispatch calls that share a key and ran one after the other: p answered
\* before q started
Sequential(p, q) ==
    /\ p # q
    /\ rq[p].op = "dispatch" /\ rq[q].op = "dispatch"
    /\ rq[p].pc = "done" /\ rq[q].pc = "done"
    /\ rq[p].key # NULL /\ rq[p].key = rq[q].key
    /\ p \in rq[q].after

\* the answer of the replay path for row i
IsReplay(resp, i) ==
    \E r \in resp : r.status = 200 /\ r.success /\ r.id = i

\* C1 as stated: of two dispatch calls with one key, run one after the other,
\* the first having produced the record: the second answers with the id of
\* that record, and across both calls exactly one provider send was made.
C1_ExactlyOneSend ==
    \A p, q \in Reqs :
        (Sequential(p, q) /\ rq[p].sentEmail # {}) =>
            /\ \E i \in existingEmail(rq[q].key) : IsReplay(rq[q].resp, i)
            /\ Cardinality({c \in calls : c.req \in {p, q}}) = 1

C1_State ==
    \A p, q \in Reqs :
        (Sequential(p, q) /\ rq[p].sentEmail # {}) =>
            LET row == CHOOSE r \in rq[p].sentEmail : TRUE
            IN  /\ IsReplay(rq[q].resp, row.id)
                /\ {c \in calls : c.req = q} = {}
                /\ Cardinality({c \in calls : c.req \in {p, q}})
                       = IF rq[p].provider = "none" THEN 0 ELSE 1

C1_Replay ==
    \A q \in Reqs :
        (rq[q].pc = "lookup" /\ rq'[q].pc = "done") =>
            \E i \in existingEmail(rq[q].key) :
                \E r \in rq'[q].resp : r.id = i /\ r.recStatus = sent[i].status

\* C1 amended: when the first of two sequential dispatch calls with one key
\* inserted the record, the second answers 200 with that record's id and the
\* status the record has at the lookup, makes no provider call, and the
\* dispatch calls of the key made one provider call if the first call selected
\* a provider and none otherwise.
C1_Idempotent == [](C1_State) /\ [][C1_Replay]_vars

C1_Witness ==
    \E p, q \in Reqs :
        /\ Sequential(p, q)
        /\ rq[p].provider = "gmail"
        /\ \E r \in rq[q].resp : r.id = 1 /\ r.recStatus = "sent"

\* C2: a dispatch call that lost the insert on the unique key answers with
\* success and the id of the winner's record.
C2_LoserReturnsWinner ==
    \A p \in Reqs :
        rq[p].conflict =>
            \E i \in existingEmail(rq[p].key) : IsReplay(rq[p].resp, i)

KeysInUse ==
    {sent[i].idempotency_key : i \in DOMAIN sent} \cup {c.key : c \in calls}

\* C3: for every key there is at most one sent_emails row and at most one
\* provider call of a dispatch, and every provider call of a dispatch is for a
\* row that has been inserted with that key.
C3_OneRecordOneSend ==
    /\ \A k \in KeysInUse :
           /\ Cardinality(existingEmail(k)) <= 1
           /\ Cardinality({c \in calls : c.via = "dispatch" /\ c.key = k}) <= 1
    /\ \A c \in calls : c.via = "dispatch" => c.rec \in existingEmail(c.key)

C3_Witness ==
    \E p \in Reqs :
        /\ rq[p].conflict
        /\ \E c \in calls : c.via = "dispatch" /\ c.key = rq[p].key /\ c.req # p

\* C4: for every record at most one provider call returns success.
C4_AtMostOneSuccess ==
    \A i \in DOMAIN sent :
        Cardinality({c \in calls : c.rec = i /\ c.success}) <= 1

\* C5: once a row is 'sent', no step changes its status, provider message id
\* or sent timestamp.
C5_SentTerminal ==
    [][\A i \in DOMAIN sent :
           sent[i].status = "sent" =>
               /\ sent'[i].status = "sent"
               /\ sent'[i].provider_message_id = sent[i].provider_message_id
               /\ sent'[i].sent_at = sent[i].sent_at]_vars

\* C6: a dispatch whose lookup finds a row for its key answers at that step
\* and the step leaves every table, the provider calls and the render count
\* unchanged.
C6_ReplayFrame ==
    [][\A p \in Reqs :
           (rq[p].pc = "lookup" /\ existingEmail(rq[p].key) # {} /\ rq'[p] # rq[p]) =>
               /\ rq'[p].pc = "done"
               /\ rq'[p].rendered = {} /\ rq'[p].sentEmail = {}
               /\ UNCHANGED <<users, templates, versions, notes, sent, calls, renders>>]_vars

C6_Witness ==
    \E p \in Reqs :
        /\ rq[p].op = "dispatch" /\ rq[p].pc = "done"
        /\ IsReplay(rq[p].resp, 1)
        /\ sent[1].status = "sent"

\* the row a retry may act on
Retryable(p) ==
    /\ rq[p].id \in DOMAIN sent
    /\ sent[rq[p].id].user_id = rq[p].user
    /\ sent[rq[p].id].status = "failed"

C7_Lookup ==
    \A p \in Reqs :
        (rq[p].pc = "rlookup" /\ rq'[p] # rq[p]) =>
            IF Retryable(p)
            THEN rq'[p].pc = "rsend"
            ELSE /\ rq'[p].pc = "done"
                 /\ \E r \in rq'[p].resp : r.status = 404 /\ ~r.success
                 /\ UNCHANGED <<sent, calls>>

C7_State ==
    /\ \A c \in calls :
           c.via = "retry" =>
               \E row \in rq[c.req].sentEmail :
                   row.status = "failed" /\ row.user_id = rq[c.req].user
    /\ \A p \in Reqs :
           (rq[p].op = "retry" /\ \E r \in rq[p].resp : r.status = 404) =>
               {c \in calls : c.req = p} = {}

\* C7: a retry whose row is missing, not owned by the caller or not 'failed'
\* at its lookup answers 404 at that step, leaving sent_emails and the provider
\* calls unchanged, and never makes a provider call; only a retry that read a
\* 'failed' row of the caller does.
C7_RetryOnlyFailed == [](C7_State) /\ [][C7_Lookup]_vars

C7_Witness ==
    /\ \E p \in Reqs :
           /\ rq[p].op = "retry" /\ rq[p].user = "u1" /\ rq[p].pc = "done"
           /\ \E r \in rq[p].resp : r.status = 404
           /\ rq[p].id \in DOMAIN sent /\ sent[rq[p].id].status = "sent"
           /\ \A c \in calls : c.via # "retry"
    /\ \E p \in Reqs :
           /\ rq[p].op = "retry" /\ rq[p].user = "u2" /\ rq[p].pc = "done"
           /\ rq[p].id \in DOMAIN sent

\* what the row holds for the adapter
Stored(row) == Handed(row.recipients, row.subject, row.body_html, row.body_text)

C8_Step ==
    \A p \in Reqs :
        (rq[p].op = "retry" /\ rq'[p] # rq[p]) =>
            /\ Len(sent') = Len(sent)
            /\ \A i \in DOMAIN sent : Content(sent'[i]) = Content(sent[i])
            /\ renders' = renders
            /\ (rq[p].pc = "rfinalize" /\ \E r \in rq[p].sendResult : r.success) =>
                   sent'[rq[p].id].status = "sent"

C8_State ==
    \A c \in calls : c.via = "retry" => c.handed = Stored(sent[c.rec])

\* C8: no step of a retry inserts a row, renders, or changes a row's id,
\* owner, note, template, template_version, key, recipients, subject or
\* bodies; every retry hands the adapter the stored recipients, subject and
\* bodies; the finalize of a retry whose send succeeded leaves the row 'sent'.
C8_RetryInPlace == [](C8_State) /\ [][C8_Step]_vars

C8_Witness ==
    \E c \in calls :
        /\ c.via = "retry" /\ c.success
        /\ sent[c.rec].status = "sent"
        /\ sent[c.rec].template_version # templates["t1"].version
        /\ renderTemplate(templates["t1"], notes["n1"]).body_html # sent[c.rec].body_html
        /\ renderTemplate(templates["t1"], notes["n1"]).subject = sent[c.rec].subject

\* the provider whose transport a dispatch with request snapshot `snap` and
\* credentials row `userData` addresses
DispatchRoute(snap, userData) ==
    IF selectProvider(userData) = "gmail" /\ snap.gmail_refresh_token = NULL
    THEN "none"
    ELSE selectProvider(userData)

\* the provider whose transport a call addressed
Route(c) == IF c.contacted THEN c.provider ELSE "none"

\* C9: the provider a retry sends through is the provider a dispatch of the
\* same owner would send through with the credentials as they are at the time
\* of the call.
C9_RetrySelectsLikeDispatch ==
    \A c \in calls :
        c.via = "retry" => Route(c) = DispatchRoute(c.snap, c.userData)

\* C10: the provider a dispatch selects is Nylas if has_nylas_auth and the
\* Nylas token are set, else Gmail if a Gmail access or refresh token is set,
\* else none; the adapter called is the selected one, and none is called when
\* none is selected.
C10_Priority ==
    \A p \in Reqs :
        \A d \in rq[p].userData :
            LET nylas == d.has_nylas_auth /\ d.nylas_access_token # NULL
                gmail == d.gmail_access_token # NULL \/ d.gmail_refresh_token # NULL
                mine == {c \in calls : c.req = p}
            IN  /\ rq[p].provider \in {"nylas", "gmail", "none"}
                /\ rq[p].provider = "nylas" <=> nylas
                /\ rq[p].provider = "gmail" <=> (~nylas /\ gmail)
                /\ rq[p].provider = "none" <=> (~nylas /\ ~gmail)
                /\ \A c \in mine : c.provider = rq[p].provider
                /\ Cardinality(mine) <= 1
                /\ rq[p].provider = "none" => mine = {}
                /\ (rq[p].pc \in {"finalize", "done"} /\ rq[p].provider # "none") =>
                       Cardinality(mine) = 1

C10_Witness ==
    \E p \in Reqs, c \in calls :
        /\ c.req = p /\ c.via = "dispatch" /\ c.provider = "nylas"
        /\ \E d \in rq[p].userData : d.gmail_refresh_token # NULL

\* a credentials row that authorizes no provider
NoProvider(d) ==
    /\ ~(d.has_nylas_auth /\ d.nylas_access_token # NULL)
    /\ d.gmail_access_token = NULL /\ d.gmail_refresh_token = NULL

C11_State ==
    \A p \in Reqs :
        \A d \in rq[p].userData :
            (rq[p].op = "dispatch" /\ NoProvider(d)) =>
                /\ {c \in calls : c.req = p} = {}
                /\ \E row \in rq[p].sentEmail, r \in rq[p].rendered, t \in rq[p].template :
                       /\ row.id \in DOMAIN sent
                       /\ Content(sent[row.id]) =
                              Content(pendingRow(row.id, rq[p], r, t.version))
                /\ rq[p].pc = "done" =>
                       \E r \in rq[p].resp : r.status = 500 /\ ~r.success

C11_Step ==
    \A p \in Reqs :
        \A d \in rq[p].userData :
            (rq[p].op = "dispatch" /\ NoProvider(d) /\ rq[p].pc # "done"
                 /\ rq'[p] # rq[p]) =>
                /\ rq'[p].pc = "done"
                /\ calls' = calls
                /\ \A row \in rq[p].sentEmail :
                       /\ sent'[row.id].status = "failed"
                       /\ sent'[row.id].error_message # NULL

\* C11: a dispatch that reads credentials authorizing no provider has inserted
\* its row with the rendered content and the template version, makes no
\* adapter call, at its next step leaves the row 'failed' with an error
\* message, and answers 500 without success.
C11_NoProviderFails == [](C11_State) /\ [][C11_Step]_vars

C11_Witness ==
    \E p \in Reqs :
        /\ rq[p].op = "dispatch" /\ rq[p].pc = "done"
        /\ \E d \in rq[p].userData : NoProvider(d) /\ d.has_nylas_auth
        /\ \E row \in rq[p].sentEmail :
               sent[row.id].status = "failed" /\ sent[row.id].error_message # NULL

\* the rows the two SELECTs of a dispatch return
TemplateFound(p) ==
    /\ rq[p].template_id \in DOMAIN templates
    /\ templates[rq[p].template_id].user_id = rq[p].user
    /\ templates[rq[p].template_id].is_active

NoteFound(p) ==
    /\ rq[p].note_id \in DOMAIN notes
    /\ notes[rq[p].note_id].user_id = rq[p].user

C12_Step ==
    \A p \in Reqs :
        (/\ rq[p].op = "dispatch" /\ rq'[p] # rq[p]
         /\ \/ rq[p].pc = "template" /\ ~TemplateFound(p)
            \/ rq[p].pc = "note" /\ ~NoteFound(p)) =>
            /\ rq'[p].pc = "done"
            /\ \E r \in rq'[p].resp : r.status = 404 /\ ~r.success
            /\ rq'[p].rendered = {} /\ rq'[p].sentEmail = {}
            /\ UNCHANGED <<templates, versions, notes, sent, calls, renders>>

C12_State ==
    \A p \in Reqs :
        (rq[p].op = "dispatch" /\ \E r \in rq[p].resp : r.status = 404) =>
            /\ rq[p].rendered = {} /\ rq[p].sentEmail = {}
            /\ {c \in calls : c.req = p} = {}

\* C12: a dispatch whose key has no row and whose SELECT of the template finds
\* no active row of the caller, or whose SELECT of the note finds no row of
\* the caller, answers 404 at that step; the step renders nothing and leaves
\* sent_emails, the templates, the notes and the provider calls unchanged, and
\* the request has no rendered content, no row and no provider call.
C12_NotFound == [](C12_State) /\ [][C12_Step]_vars

C12_Witness ==
    \E p, q \in Reqs :
        /\ rq[p].op = "dispatch" /\ rq[p].user = "u1" /\ rq[p].template_id = "t1"
        /\ ~templates["t1"].is_active
        /\ \E r \in rq[p].resp : r.status = 404 /\ r.error = "Template not found"
        /\ rq[q].op = "dispatch" /\ rq[q].user = "u1" /\ rq[q].note_id = "n2"
        /\ \E r \in rq[q].resp : r.status = 404 /\ r.error = "Note not found"

\* the snapshot of a row
SnapshotOf(row) ==
    [template_id |-> row.id, version |-> row.version, subject |-> row.subject,
     body |-> row.body, variables |-> row.variables]

\* the snapshots of a template
SnapshotsOf(history, id) == {v \in history : v.template_id = id}

\* C13: in every step and for every template: if the subject or the body of
\* the row changes, the version grows by exactly 1 and the one snapshot added
\* is that of the old row; otherwise (a change of the name only, a soft delete,
\* a save of the same content) the version stays and no snapshot is added.
C13_VersionIffContent ==
    [][\A id \in DOMAIN templates :
           LET old == templates[id]
               new == templates'[id]
           IN  IF old.subject # new.subject \/ old.body # new.body
               THEN /\ new.version = old.version + 1
                    /\ SnapshotOf(old) \notin versions
                    /\ SnapshotsOf(versions', id) =
                           SnapshotsOf(versions, id) \cup {SnapshotOf(old)}
               ELSE /\ new.version = old.version
                    /\ SnapshotsOf(versions', id) = SnapshotsOf(versions, id)]_vars

C13_Witness ==
    /\ templates["t1"].version = 3
    /\ templates["t1"].name = "Hello"
    /\ ~templates["t1"].is_active
    /\ {v.version : v \in versions} = {1, 2}
    /\ Cardinality(versions) = 2
    /\ \E v, w \in versions : v.body # w.body /\ v.subject = w.subject

\* the root names of a source: the argument of a block opened with
\* each, if or unless, the name of any other mustache, the root of a dotted
\* path, nothing for `this` and for a closing tag, each name once in the order
\* of first occurrence
RECURSIVE RootNames(_, _)
RootNames(content, acc) ==
    IF content = <<>> THEN acc
    ELSE LET t == Head(content)
             words == Words(t.inner)
             name == IF t.k \notin {"mu", "raw"} \/ words = <<>> THEN <<>>
                     ELSE IF Head(words[1]) = "/" THEN <<>>
                     ELSE IF Head(words[1]) = "#"
                     THEN IF Tail(words[1]) \in {N_each, N_if, N_unless} /\ Len(words) >= 2
                          THEN words[2] ELSE <<>>
                     ELSE words[1]
             root == SplitFirst(name, ".")
         IN  RootNames(Tail(content),
                 IF root = <<>> \/ root = N_this \/ root \in Range(acc)
                 THEN acc ELSE Append(acc, root))

\* C14: the variables stored with a template are the root names of its
\* subject and body: the bound name of every each, if and unless block, no
\* entry holding a helper keyword or '#', roots of dotted paths only, nothing
\* for `this` and closing tags, without duplicates in order of first occurrence.
C14_RootVariables ==
    \A id \in DOMAIN templates :
        /\ templates[id].variables =
               RootNames(templates[id].subject \o <<Text(" ")>> \o templates[id].body, <<>>)
        /\ \A i \in DOMAIN templates[id].variables :
               "#" \notin Range(templates[id].variables[i])

\* the names of the bindings extractNoteVariables always provides
NoteBindingNames ==
    {N_note_title, N_note_content, N_note_content_html, N_note_created_at,
     N_note_updated_at, N_today, N_now, N_current_year, N_current_month, N_current_date}

\* the plain variables of a source that are none of the note's bindings
UnknownNames(source) ==
    {Trim(source[i].inner) : i \in
        {j \in DOMAIN source :
            /\ source[j].k \in {"mu", "raw"}
            /\ Len(Words(source[j].inner)) = 1
            /\ Range(source[j].inner) \cap {"#", "/", "."} = {}
            /\ Trim(source[j].inner) \notin NoteBindingNames \cup {N_this}}}

NoBlocks(source) ==
    \A i \in DOMAIN source :
        source[i].k \in {"mu", "raw"} => Range(source[i].inner) \cap {"#", "/"} = {}

\* C15: a preview of a template without blocks whose body names a variable
\* that is none of the note's bindings answers 200, and the rendered body
\* holds the placeholder [name] of every such variable, whatever the note's
\* content.
C15_UnknownPlaceholder ==
    \A p \in Reqs :
        \A t \in rq[p].template :
            (/\ rq[p].op = "preview" /\ rq[p].pc = "done"
             /\ rq[p].note_id = "n1"
             /\ NoBlocks(t.body) /\ NoBlocks(t.subject)) =>
                /\ \E r \in rq[p].resp : r.status = 200
                /\ \A r \in rq[p].rendered :
                       \A n \in UnknownNames(t.body) :
                           Placeholder(n) \in Range(r.body_html)

\* the tables and the provider calls
Persisted == <<users, templates, versions, notes, sent, calls, lastWrite>>

\* C18: every step of a preview request, whatever its outcome, leaves the
\* send records, the templates, their versions, the notes and the users as
\* they were and calls no provider.
C18_RenderOnly ==
    [][\A p \in Reqs :
          (rq'[p].op = "preview" /\ rq'[p] # rq[p]) => UNCHANGED Persisted]_vars

C18_Witness ==
    \E p, q \in Reqs :
        /\ rq[p].op = "preview" /\ rq[p].pc = "done"
        /\ rq[p].rendered # {} /\ \E r \in rq[p].resp : r.status = 200
        /\ rq[q].op = "preview" /\ rq[q].pc = "done"
        /\ rq[q].template # {} /\ rq[q].rendered = {}
        /\ \E r \in rq[q].resp : r.status = 500

\* the bodies the engine has rendered
RenderedBodies == UNION {{r.body_html : r \in rq[p].rendered} : p \in Reqs}

EventHandlers == {"onerror", "onload", "onclick"}
ForbiddenTags == {"script", "object", "embed", "form", "input"}

\* C19: a rendered body holds no event-handler attribute and no script,
\* object, embed, form or input tag, and every tag and every attribute in it
\* is in the configured allow-list (ALLOWED_TAGS, ALLOWED_ATTR).
C19_AllowListOnly ==
    \A html \in RenderedBodies :
        \A i \in DOMAIN html :
            html[i].k \in {"open", "close"} =>
                /\ html[i].tag \notin ForbiddenTags
                /\ html[i].tag \in ALLOWED_TAGS
                /\ \A a \in html[i].attrs :
                       a[1] \notin EventHandlers /\ a[1] \in ALLOWED_ATTR

\* C20: sanitizing a sanitized body again gives the same body.
C20_Idempotent ==
    \A html \in RenderedBodies : sanitizeHtml(html) = html

\* the fields of a request that are no strings
NoStrings(w) == {f \in {"subject", "body"} : w[f].type # "string"}

\* the run of a create or update handler that reached validateTemplate
Validated(w) ==
    /\ w.op \in {"create", "update"}
    /\ ~Missing(w.name, w.subject, w.body)

\* the result validateTemplate gave the last create or update
C16_Result ==
    Validated(lastWrite) =>
        LET v == lastWrite.validation
        IN  /\ v.valid <=> v.errors = <<>>
            /\ Len(v.errors) = Cardinality(NoStrings(lastWrite))
            /\ "Subject template error" \in Range(v.errors)
                   <=> "subject" \in NoStrings(lastWrite)
            /\ "Body template error" \in Range(v.errors)
                   <=> "body" \in NoStrings(lastWrite)
            /\ ~v.valid => lastWrite.status = 400

C16_Step ==
    (/\ lastWrite' # lastWrite
     /\ Validated(lastWrite')
     /\ (~lastWrite'.validation.valid \/ NoStrings(lastWrite') # {})) =>
        UNCHANGED <<templates, versions>>

Called == {p \in Reqs : rq[p].provider \in {"gmail", "nylas"} /\ rq[p].sendResult # {}}

\* C17: whatever the transport does, the call of an adapter returns and does
\* not throw; the result is a success without an error, or a failure with the
\* empty message id and an error message; the Gmail adapter fails without
\* contacting the transport when the user it is given has no refresh token.
C17_UniformResult ==
    \A p \in Called :
        \A r \in rq[p].sendResult :
            /\ ~r.thrown
            /\ r.success => r.error = NULL
            /\ ~r.success => r.messageId = 0 /\ r.error # NULL
            /\ (rq[p].provider = "gmail" /\ rq[p].snap.gmail_refresh_token = NULL) =>
                   ~r.success /\ ~r.contacted

C17_Witness ==
    \E p, q \in Called :
        /\ rq[p].provider = "nylas"
        /\ \E r \in rq[p].sendResult : r.error = "Invalid JSON response from Nylas API"
        /\ rq[q].provider = "gmail" /\ rq[q].snap.gmail_refresh_token # NULL
        /\ \E r \in rq[q].sendResult : r.error = "invalid_grant"

\* the status transitions of creation, finalize and retry
StatusTransitions ==
    {<<"pending", "sent">>, <<"pending", "failed">>, <<"failed", "pending">>}

\* C21: every row is created 'pending', the status of a row changes only from
\* pending to sent, from pending to failed and from failed to pending, and an
\* adapter is called for a row only while its stored status is 'pending' (a
\* retry has moved it from failed to pending before the call).
C21_Transitions ==
    [][/\ \A i \in DOMAIN sent' :
              IF i \in DOMAIN sent
              THEN sent'[i].status # sent[i].status =>
                       <<sent[i].status, sent'[i].status>> \in StatusTransitions
              ELSE sent'[i].status = "pending"
       /\ \A c \in calls' \ calls : sent[c.rec].status = "pending"]_vars

\* the adapter results handed to the finalize step for row i
ResultsFor(i) ==
    UNION {IF \E e \in rq[p].sentEmail : e.id = i THEN rq[p].sendResult ELSE {} :
           p \in Reqs}

\* C22: in every state a 'sent' row has its sent_at set, holds the message id
\* of a successful adapter result for it and no error message; a 'failed' row
\* has no sent_at, no message id and the error text of a failed result for it;
\* a 'pending' row has none of the three.
C22_StatusFields ==
    \A i \in DOMAIN sent :
        LET row == sent[i]
        IN  /\ row.status \in {"pending", "sent", "failed"}
            /\ row.status = "sent" =>
                   /\ row.sent_at # 0 /\ row.error_message = NULL
                   /\ \E r \in ResultsFor(i) :
                          r.success /\ r.messageId = row.provider_message_id
            /\ row.status = "failed" =>
                   /\ row.sent_at = 0 /\ row.provider_message_id = 0
                   /\ row.error_message # NULL
                   /\ \E r \in ResultsFor(i) :
                          ~r.success /\ r.error = row.error_message
            /\ row.status = "pending" =>
                   /\ row.sent_at = 0 /\ row.provider_message_id = 0
                   /\ row.error_message = NULL

C22_Witness ==
    \E i \in DOMAIN sent :
        /\ sent[i].status = "sent" /\ sent[i].provider_message_id # 0
        /\ \E p, q \in Reqs :
               /\ rq[p].op = "dispatch" /\ rq[p].pc = "done"
               /\ \E e \in rq[p].sentEmail : e.id = i
               /\ \E r \in rq[p].sendResult : ~r.success /\ r.contacted
               /\ rq[q].op = "retry" /\ rq[q].pc = "done" /\ rq[q].id = i

\* the subject and body template `id` had at version v: the live row or its snapshot
TemplateAt(id, v) ==
    IF templates[id].version = v
    THEN {[subject |-> templates[id].subject, body |-> templates[id].body]}
    ELSE {[subject |-> s.subject, body |-> s.body] :
              s \in {x \in versions : x.template_id = id /\ x.version = v}}

\* the row's subject and bodies are a rendering of source t against its note
RenderedFrom(row, t) ==
    \E content \in Contents :
        LET r == renderTemplate([templates[row.template_id] EXCEPT
                                     !.subject = t.subject, !.body = t.body],
                                [notes[row.note_id] EXCEPT !.content = content])
        IN  /\ ~r.thrown
            /\ r.subject = row.subject
            /\ r.body_html = row.body_html
            /\ r.body_text = row.body_text

C23_State ==
    \A i \in DOMAIN sent :
        /\ Cardinality(TemplateAt(sent[i].template_id, sent[i].template_version)) = 1
        /\ \A t \in TemplateAt(sent[i].template_id, sent[i].template_version) :
               RenderedFrom(sent[i], t)

C23_Step ==
    \A i \in DOMAIN sent :
        /\ sent'[i].template_version = sent[i].template_version
        /\ Stored(sent'[i]) = Stored(sent[i])

\* C23: the subject and bodies stored in a row are the rendering of the subject
\* and body its template had at the row's template_version, whatever template
\* and note updates interleave with the dispatch, and no step changes the
\* row's template_version or its stored content.
C23_VersionOfRender == [](C23_State) /\ [][C23_Step]_vars

C23_Witness ==
    \E i \in DOMAIN sent :
        /\ sent[i].template_version = 1
        /\ templates[sent[i].template_id].version = 2
        /\ ~RenderedFrom(sent[i], templates[sent[i].template_id])
        /\ \E p \in Reqs : rq[p].op = "dispatch" /\ rq[p].pc = "done"
                           /\ \E r \in rq[p].resp : r.status = 200

C24_State ==
    \A id \in DOMAIN templates :
        LET snaps == SnapshotsOf(versions, id)
        IN  /\ {s.version : s \in snaps} = 1..(templates[id].version - 1)
            /\ Cardinality(snaps) = templates[id].version - 1

C24_Step ==
    /\ versions \subseteq versions'
    /\ \A s \in versions' \ versions :
           /\ s.template_id \in DOMAIN templates
           /\ s = SnapshotOf(templates[s.template_id])
    /\ \A id \in DOMAIN templates : templates'[id].version >= templates[id].version

\* C24: in every state a template of live version v has exactly one snapshot
\* for each of the versions 1..v-1 and none for a version from v on; a step
\* removes or alters no snapshot, every snapshot it adds holds the version,
\* subject, body and variables the live row had before the step, and the live
\* version never decreases.
C24_AppendOnly == [](C24_State) /\ [][C24_Step]_vars

C24_Witness ==
    /\ templates["t1"].version = 3
    /\ ~templates["t1"].is_active
    /\ \E s \in SnapshotsOf(versions, "t1") :
           s.version = 1 /\ s.body = templates["t1"].body
    /\ \E s \in SnapshotsOf(versions, "t1") :
           s.version = 2 /\ s.body # templates["t1"].body

\* the schemes of a kept href or src: http, https, mailto, tel, or none (a relative path)
KeptSchemes == {"", "http", "https", "mailto", "tel"}

\* C25: every href and src attribute of a rendered body has a value whose
\* scheme is http, https, mailto or tel or that is a relative path; an
\* attribute with any other scheme (javascript, data, ftp, cid, callto, xmpp)
\* is not in the output.
C25_SchemeAllowList ==
    \A html \in RenderedBodies :
        \A i \in DOMAIN html :
            \A a \in html[i].attrs :
                a[1] \in {"href", "src"} => a[2] \in KeptSchemes

\* the steps of a dispatch or retry from the read of the credentials on
ProviderSteps == {"creds", "send", "finalize", "rsend", "rfinalize"}

\* the request has answered and its row is 'sent' or 'failed'
Settled(p) ==
    /\ rq[p].pc = "done"
    /\ rq[p].resp # {}
    /\ \A e \in rq[p].sentEmail : sent[e.id].status \in {"sent", "failed"}

C26_NoPendingLeft ==
    \A p \in Reqs : (rq[p].pc = "done" /\ rq[p].sentEmail # {}) => Settled(p)

\* C26: a dispatch or retry that has reached the read of the credentials or
\* the adapter call eventually answers with its row 'sent' or 'failed',
\* whether the adapter succeeds, fails or no provider is configured, and no
\* request that has answered leaves its row 'pending'.
C26_Finalizes ==
    /\ [](C26_NoPendingLeft)
    /\ \A p \in Reqs : (rq[p].pc \in ProviderSteps) ~> Settled(p)

C26_Witness ==
    \E p, q \in Reqs :
        /\ rq[p].op = "dispatch" /\ Settled(p)
        /\ \E r \in rq[p].sendResult : ~r.success
        /\ rq[q].op = "retry" /\ Settled(q)
        /\ \E r \in rq[q].sendResult : r.success
        /\ rq[q].sentEmail # {}
        /\ \A e \in rq[q].sentEmail :
               sent[e.id].status = "sent" /\ \E d \in rq[p].sentEmail : d.id = e.id

\* the pending row of a dispatch: inserted under the key of the request with
\* the rendered subject, html and text
PendingFor(p, i) ==
    /\ sent[i].idempotency_key = rq[p].key
    /\ sent[i].user_id = rq[p].user
    /\ sent[i].status = "pending"
    /\ \E r \in rq[p].rendered :
           /\ sent[i].subject = r.subject
           /\ sent[i].body_html = r.body_html
           /\ sent[i].body_text = r.body_text

C27_State ==
    \A p \in Reqs :
        (rq[p].op = "dispatch" /\ rq[p].userData # {}) =>
            \E e \in rq[p].sentEmail :
                /\ e.id \in DOMAIN sent
                /\ Content(sent[e.id]) = Content(e)
                /\ e.idempotency_key = rq[p].key

C27_Step ==
    /\ \A p \in Reqs :
           (rq[p].op = "dispatch" /\ rq[p].userData = {} /\ rq'[p].userData # {}) =>
               \E i \in DOMAIN sent : PendingFor(p, i)
    /\ \A c \in calls' \ calls :
           c.via = "dispatch" =>
               /\ c.key = rq[c.req].key
               /\ \E i \in DOMAIN sent : PendingFor(c.req, i) /\ i = c.rec

\* C27: a dispatch reads the credentials of the owner and calls an adapter
\* only when a row with the key of the request, status 'pending' and the
\* rendered subject, html and text is in sent_emails.
C27_InsertBeforeSend == [](C27_State) /\ [][C27_Step]_vars

C27_Witness ==
    \E c \in calls :
        /\ c.via = "dispatch"
        /\ rq[c.req].pc = "done"
        /\ sent[c.rec].idempotency_key = c.key
        /\ sent[c.rec].status = "sent"

\* C28: every Nylas call goes to the grant stored for the owner of the
\* request, the grantId argument dispatch passes (nylas_access_token), so
\* calls of owners with different grants address different grants.
C28_OwnGrant ==
    /\ \A c \in calls :
           c.provider = "nylas" => c.grant = c.userData.nylas_access_token
    /\ \A c, d \in calls :
           (/\ c.provider = "nylas" /\ d.provider = "nylas"
            /\ c.userData.nylas_access_token # d.userData.nylas_access_token)
               => c.grant # d.grant

\* C29: a dispatch answers with the id and status of a row, and with
\* success, only when the row belongs to the caller: a key used by a row of
\* another user is not replayed to the caller.
C29_ReplayWithinOwner ==
    \A p \in Reqs :
        (rq[p].op = "dispatch" /\ rq[p].pc = "done") =>
            \A r \in rq[p].resp :
                /\ r.id \in DOMAIN sent => sent[r.id].user_id = rq[p].user
                /\ r.success =>
                       \E i \in DOMAIN sent :
                           /\ sent[i].idempotency_key = rq[p].key
                           /\ sent[i].user_id = rq[p].user

\* the adapter calls made for a dispatch request
CallsOf(p) == {c \in calls : c.req = p /\ c.via = "dispatch"}

C30_State ==
    \A p \in Reqs :
        rq[p].op = "dispatch" =>
            /\ Cardinality(CallsOf(p)) <= 1
            /\ \A c \in CallsOf(p), d \in rq[p].userData :
                   c.provider = selectProvider(d)

C30_Step ==
    \A p \in Reqs :
        (rq[p].op = "dispatch" /\ rq[p].pc = "finalize" /\ rq'[p] # rq[p]) =>
            /\ rq'[p].pc = "done"
            /\ calls' = calls
            /\ \A r \in rq[p].sendResult, e \in rq[p].sentEmail :
                   ~r.success =>
                       /\ sent'[e.id].status = "failed"
                       /\ sent'[e.id].error_message = r.error

\* C30: a dispatch makes at most one adapter call, to the provider the
\* priority selects; after a failure of that provider the request finalizes
\* its row as 'failed' with that provider's error and answers, without a call
\* to the other provider.
C30_OneProviderCall == [](C30_State) /\ [][C30_Step]_vars

C30_Witness ==
    \E p \in Reqs :
        /\ rq[p].op = "dispatch" /\ rq[p].pc = "done"
        /\ \E d \in rq[p].userData : d.gmail_access_token # NULL
        /\ \E c \in CallsOf(p) : c.provider = "nylas" /\ ~c.success
        /\ \E e \in rq[p].sentEmail, r \in rq[p].sendResult :
               /\ sent[e.id].status = "failed"
               /\ sent[e.id].error_message = r.error

====
